---- MODULE Spec2Model ----
(***************************************************************************)
(* Audit-Backend: the audit template tree (template -> areas -> scopes ->  *)
(* questions -> options), its validators, the ID-based merge of            *)
(* update_template, tree creation, seeding, cloning and the soft deletes.  *)
(*                                                                         *)
(* The database is an arena: one sequence of rows per table, a row's id is *)
(* its index (ids are fresh and never reused).  A missing id (None) is 0.  *)
(* Strings are sequences of one-character strings, so that strip() and     *)
(* lower() are computed and not assumed.                                   *)
(***************************************************************************)
EXTENDS Integers, Sequences, FiniteSets, TLC

VARIABLES templates, areas, scopes, questions, options, resp, nops, sess

vars == <<templates, areas, scopes, questions, options, resp, nops, sess>>

(***************************************************************************)
(* Bounds of the model.                                                    *)
(***************************************************************************)
\* number of requests served in one behaviour
MaxOps == 3

\* the sessions open at one time
MaxSessions == 2

None == 0

(***************************************************************************)
(* Strings.                                                                *)
(***************************************************************************)
UpperChars == <<"A", "B", "C", "D", "E", "F", "G", "H", "I", "J", "K", "L", "M",
                "N", "O", "P", "Q", "R", "S", "T", "U", "V", "W", "X", "Y", "Z">>

LowerChars == <<"a", "b", "c", "d", "e", "f", "g", "h", "i", "j", "k", "l", "m",
                "n", "o", "p", "q", "r", "s", "t", "u", "v", "w", "x", "y", "z">>

IsSpace(c) == c \in {" ", "\t", "\n"}

LowerChar(c) ==
    IF \E i \in 1..Len(UpperChars) : UpperChars[i] = c
    THEN LowerChars[CHOOSE i \in 1..Len(UpperChars) : UpperChars[i] = c]
    ELSE c

\* str.lower()
StrLower(s) == [i \in 1..Len(s) |-> LowerChar(s[i])]

\* str.strip(): drop the leading and the trailing whitespace
StrStrip(s) ==
    LET keep == {i \in 1..Len(s) : ~IsSpace(s[i])}
    IN  IF keep = {} THEN <<>>
        ELSE LET lo == CHOOSE i \in keep : \A j \in keep : i <= j
                 hi == CHOOSE i \in keep : \A j \in keep : j <= i
             IN  SubSeq(s, lo, hi)

\* the comparison key of the name validators: name.strip().lower()
NameKey(s) == StrLower(StrStrip(s))

DEFAULT_TEMPLATE_NAME ==
    <<"D", "e", "f", "a", "u", "l", "t", " ", "A", "u", "d", "i", "t", " ",
      "T", "e", "m", "p", "l", "a", "t", "e">>

DefaultWeightage == 20

DEFAULT_AREAS ==
    << [name |-> <<"P", "r", "o", "j", "e", "c", "t", " ", "E", "x", "e", "c", "u", "t", "i", "o", "n">>,
        weightage |-> DefaultWeightage, scopes |-> <<>>],
       [name |-> <<"E", "n", "g", "i", "n", "e", "e", "r", "i", "n", "g", " ", "E", "x", "c", "e", "l", "l", "e", "n", "c", "e">>,
        weightage |-> DefaultWeightage, scopes |-> <<>>],
       [name |-> <<"C", "o", "m", "m", "u", "n", "i", "c", "a", "t", "i", "o", "n">>,
        weightage |-> DefaultWeightage, scopes |-> <<>>],
       [name |-> <<"P", "e", "o", "p", "l", "e", " ", "M", "a", "n", "a", "g", "e", "m", "e", "n", "t">>,
        weightage |-> DefaultWeightage, scopes |-> <<>>],
       [name |-> <<"L", "e", "a", "r", "n", "i", "n", "g", " ", "&", " ", "I", "n", "n", "o", "v", "a", "t", "i", "o", "n">>,
        weightage |-> DefaultWeightage, scopes |-> <<>>] >>

(***************************************************************************)
(* HTTP status codes of the responses.                                     *)
(***************************************************************************)
HTTP_200_OK == 200
HTTP_201_CREATED == 201
HTTP_204_NO_CONTENT == 204
HTTP_404_NOT_FOUND == 404
HTTP_409_CONFLICT == 409
HTTP_422_UNPROCESSABLE_ENTITY == 422
HTTP_500_INTERNAL_SERVER_ERROR == 500

(***************************************************************************)
(* Helpers on sequences and sets of ids.                                   *)
(***************************************************************************)
RECURSIVE SortedSeq(_)
\* the ids of a set in ascending order (rows are read back in creation order)
SortedSeq(S) ==
    IF S = {} THEN <<>>
    ELSE LET m == CHOOSE x \in S : \A y \in S : x <= y
         IN  <<m>> \o SortedSeq(S \ {m})

RECURSIVE SumSeq(_)
SumSeq(s) == IF s = <<>> THEN 0 ELSE Head(s) + SumSeq(Tail(s))

\* the database as one value
DB == [templates |-> templates, areas |-> areas, scopes |-> scopes,
       questions |-> questions, options |-> options]

(***************************************************************************)
(* Repository reads.  The relationship loaders keep the active children    *)
(* only (selectinload(... .and_(isactive.is_(True)))).                     *)
(***************************************************************************)
\* a loader of areas that forgets the template it loads for
LoadedAreasOfAnyTemplate(db, tid) ==
    {i \in 1..Len(db.areas) : db.areas[i].isactive}

\* AuditTemplate.areas as loaded: the active areas of a template
LoadedAreas(db, tid) ==
    {i \in 1..Len(db.areas) : db.areas[i].template_id = tid /\ db.areas[i].isactive}

\* AuditArea.scopes as loaded: the active scopes of an area
LoadedScopes(db, aid) ==
    {i \in 1..Len(db.scopes) : db.scopes[i].area_id = aid /\ db.scopes[i].isactive}

\* AuditScope.questions as loaded: the active questions of a scope
LoadedQuestions(db, sid) ==
    {i \in 1..Len(db.questions) : db.questions[i].scope_id = sid /\ db.questions[i].isactive}

\* AuditQuestion.options as loaded: the active options of a question
LoadedOptions(db, qid) ==
    {i \in 1..Len(db.options) : db.options[i].question_id = qid /\ db.options[i].isactive}

\* the question rows of a scope, active or not
QuestionRowsOf(db, sid) == {i \in 1..Len(db.questions) : db.questions[i].scope_id = sid}

\* AuditTemplateRepository.get_by_id: the active template with this id, or None
get_by_id(db, tid) ==
    IF tid \in 1..Len(db.templates) /\ db.templates[tid].isactive THEN tid ELSE None

\* AuditTemplateRepository.get_by_id_with_details: the template with this id,
\* active or not (the query filters on the id only), or None
get_by_id_with_details(db, tid) ==
    IF tid \in 1..Len(db.templates) THEN tid ELSE None

\* AuditTemplateRepository.get_by_name: the rows the query selects, the active
\* templates whose name equals the argument exactly
get_by_name(db, name) ==
    {i \in 1..Len(db.templates) : db.templates[i].name = name /\ db.templates[i].isactive}

(***************************************************************************)
(* Detail serialisation.                                                   *)
(***************************************************************************)
\* a total that counts the areas
TotalWeightageCountsAreas(db, aids) == Len(aids)

_compute_total_weightage(db, aids) ==
    SumSeq([k \in 1..Len(aids) |-> db.areas[aids[k]].weightage])

OptionDetail(db, o) ==
    [id |-> o, question_id |-> db.options[o].question_id,
     label |-> db.options[o].label, value |-> db.options[o].value]

QuestionDetail(db, q) ==
    LET os == SortedSeq(LoadedOptions(db, q))
    IN  [id |-> q, scope_id |-> db.questions[q].scope_id,
         text |-> db.questions[q].text,
         percentage |-> db.questions[q].percentage,
         is_mandatory |-> db.questions[q].is_mandatory,
         options |-> [k \in 1..Len(os) |-> OptionDetail(db, os[k])]]

\* a scope detail whose total counts the questions that are not active too
ScopeDetailCountsInactive(db, s) ==
    LET qs == SortedSeq(LoadedQuestions(db, s))
        all == SortedSeq(QuestionRowsOf(db, s))
    IN  [id |-> s, area_id |-> db.scopes[s].area_id, name |-> db.scopes[s].name,
         questions |-> [k \in 1..Len(qs) |-> QuestionDetail(db, qs[k])],
         total_percentage |-> SumSeq([k \in 1..Len(all) |-> db.questions[all[k]].percentage])]

_scope_detail(db, s) ==
    LET qs == SortedSeq(LoadedQuestions(db, s))
    IN  [id |-> s, area_id |-> db.scopes[s].area_id, name |-> db.scopes[s].name,
         questions |-> [k \in 1..Len(qs) |-> QuestionDetail(db, qs[k])],
         total_percentage |-> SumSeq([k \in 1..Len(qs) |-> db.questions[qs[k]].percentage])]

AreaDetail(db, a) ==
    LET ss == SortedSeq(LoadedScopes(db, a))
    IN  [id |-> a, template_id |-> db.areas[a].template_id,
         name |-> db.areas[a].name, weightage |-> db.areas[a].weightage,
         scopes |-> [k \in 1..Len(ss) |-> _scope_detail(db, ss[k])]]

_template_to_detail_response(db, tid) ==
    LET as == SortedSeq(LoadedAreas(db, tid))
    IN  [id |-> tid, name |-> db.templates[tid].name,
         isactive |-> db.templates[tid].isactive,
         areas |-> [k \in 1..Len(as) |-> AreaDetail(db, as[k])],
         total_weightage |-> _compute_total_weightage(db, as)]

(***************************************************************************)
(* Tree validators.  A payload is a sequence of area items                 *)
(*   [id, name, weightage, scopes], scope items [id, name, questions],     *)
(*   question items [id, text, percentage, is_mandatory, options] and      *)
(*   option items [id, label, value].  Each validator is TRUE when it      *)
(*   raises nothing.                                                       *)
(***************************************************************************)
\* no two positions of a sequence of keys hold the same key
NoDuplicate(keys) ==
    \A i, j \in 1..Len(keys) : i < j => keys[i] /= keys[j]

\* the questions of all scopes of all areas, flattened in payload order
RECURSIVE FlatScopes(_)
FlatScopes(as) ==
    IF as = <<>> THEN <<>> ELSE Head(as).scopes \o FlatScopes(Tail(as))

RECURSIVE FlatQuestions(_)
FlatQuestions(ss) ==
    IF ss = <<>> THEN <<>> ELSE Head(ss).questions \o FlatQuestions(Tail(ss))

PayloadScopes(as) == FlatScopes(as)
PayloadQuestions(as) == FlatQuestions(FlatScopes(as))

\* the sum the percentage validator computes
PayloadPercentageTotal(as) ==
    LET qs == PayloadQuestions(as)
    IN  SumSeq([k \in 1..Len(qs) |-> qs[k].percentage])

\* a validator of emptiness that raises nothing
ValidateEmptySkipped(as) == TRUE

\* a validator that lets totals above 100 pass
ValidatePercentagesAtLeast(as) == PayloadPercentageTotal(as) >= 100

_validate_scope_percentages(as) == PayloadPercentageTotal(as) = 100

\* a validator of area names that compares them as given
ValidateAreaNamesExact(as) == NoDuplicate([k \in 1..Len(as) |-> as[k].name])

_validate_area_names(as) ==
    NoDuplicate([k \in 1..Len(as) |-> NameKey(as[k].name)])

_validate_scope_names(as) ==
    \A i \in 1..Len(as) :
        NoDuplicate([k \in 1..Len(as[i].scopes) |-> NameKey(as[i].scopes[k].name)])

_validate_question_names(as) ==
    LET ss == PayloadScopes(as)
    IN  \A i \in 1..Len(ss) :
            NoDuplicate([k \in 1..Len(ss[i].questions) |-> NameKey(ss[i].questions[k].text)])

_validate_option_labels(as) ==
    LET qs == PayloadQuestions(as)
    IN  \A i \in 1..Len(qs) :
            NoDuplicate([k \in 1..Len(qs[i].options) |-> NameKey(qs[i].options[k].label)])

_validate_option_values(as) ==
    LET qs == PayloadQuestions(as)
    IN  \A i \in 1..Len(qs) :
            NoDuplicate([k \in 1..Len(qs[i].options) |-> qs[i].options[k].value])

\* a validator of emptiness that looks at the areas only
ValidateEmptyAreasOnly(as) == \A i \in 1..Len(as) : as[i].scopes /= <<>>

_validate_empty_question_scopes_areas(as) ==
    /\ \A i \in 1..Len(as) : as[i].scopes /= <<>>
    /\ \A i \in 1..Len(PayloadScopes(as)) : PayloadScopes(as)[i].questions /= <<>>
    /\ \A i \in 1..Len(PayloadQuestions(as)) : PayloadQuestions(as)[i].options /= <<>>

\* validator calls that begin with the percentage total
ValidateAllPercentagesFirst(as) ==
    IF ~_validate_scope_percentages(as) THEN "percentage"
    ELSE IF ~_validate_empty_question_scopes_areas(as) THEN "empty"
    ELSE IF ~_validate_area_names(as) THEN "area_name"
    ELSE IF ~_validate_scope_names(as) THEN "scope_name"
    ELSE IF ~_validate_question_names(as) THEN "question_name"
    ELSE IF ~_validate_option_labels(as) THEN "option_label"
    ELSE IF ~_validate_option_values(as) THEN "option_value"
    ELSE "ok"

\* the validator calls of create_template, update_template and clone_template,
\* in their order: the name of the first validator that raises, or "ok"
ValidateAll(as) ==
    IF ~_validate_empty_question_scopes_areas(as) THEN "empty"
    ELSE IF ~_validate_area_names(as) THEN "area_name"
    ELSE IF ~_validate_scope_names(as) THEN "scope_name"
    ELSE IF ~_validate_question_names(as) THEN "question_name"
    ELSE IF ~_validate_option_labels(as) THEN "option_label"
    ELSE IF ~_validate_option_values(as) THEN "option_value"
    ELSE IF ~_validate_scope_percentages(as) THEN "percentage"
    ELSE "ok"

(***************************************************************************)
(* Rows.                                                                   *)
(***************************************************************************)
TemplateRow(name, user) ==
    [name |-> name, isactive |-> TRUE, created_by |-> user, updated_by |-> user]

AreaRow(tid, p, user) ==
    [template_id |-> tid, name |-> p.name, weightage |-> p.weightage,
     isactive |-> TRUE, created_by |-> user, updated_by |-> user]

ScopeRow(aid, p, user) ==
    [area_id |-> aid, name |-> p.name,
     isactive |-> TRUE, created_by |-> user, updated_by |-> user]

QuestionRow(sid, p, user) ==
    [scope_id |-> sid, text |-> p.text, percentage |-> p.percentage,
     is_mandatory |-> p.is_mandatory,
     isactive |-> TRUE, created_by |-> user, updated_by |-> user]

OptionRow(qid, p, user) ==
    [question_id |-> qid, label |-> p.label, value |-> p.value,
     isactive |-> TRUE, created_by |-> user, updated_by |-> user]

\* a write that leaves the stamp as it was
StampNever(row, user) == row

\* "if user_id is not None: obj.updated_by = user_id"
Stamp(row, user) ==
    IF user /= None THEN [row EXCEPT !.updated_by = user] ELSE row

\* obj.isactive = False, with the stamp, on the rows of a table whose id is in S
Deactivate(rows, S, user) ==
    [i \in 1..Len(rows) |->
        IF i \in S THEN Stamp([rows[i] EXCEPT !.isactive = FALSE], user) ELSE rows[i]]

\* a session whose close keeps what was staged, committed or not
SessionCloseKeepsStaged(before, staged, committed) == staged

\* get_db: the session is closed when the request ends; what was not committed
\* is rolled back
SessionClose(before, staged, committed) ==
    IF committed THEN staged ELSE before

(***************************************************************************)
(* AuditTemplateRepository.create_with_tree: template, then all areas,     *)
(* then all scopes, then all questions, then all options.                  *)
(***************************************************************************)
RECURSIVE ChildPairs(_, _, _)
\* the children of the k-th, (k+1)-th, ... parent, each with its parent's id
ChildPairs(parents, kids, k) ==
    IF k > Len(parents) THEN <<>>
    ELSE [j \in 1..Len(kids[k]) |-> [parent |-> parents[k], item |-> kids[k][j]]]
         \o ChildPairs(parents, kids, k + 1)

create_with_tree(db, name, as, user) ==
    LET tid    == Len(db.templates) + 1
        aids   == [k \in 1..Len(as) |-> Len(db.areas) + k]
        spairs == ChildPairs(aids, [k \in 1..Len(as) |-> as[k].scopes], 1)
        sids   == [k \in 1..Len(spairs) |-> Len(db.scopes) + k]
        qpairs == ChildPairs(sids, [k \in 1..Len(spairs) |-> spairs[k].item.questions], 1)
        qids   == [k \in 1..Len(qpairs) |-> Len(db.questions) + k]
        opairs == ChildPairs(qids, [k \in 1..Len(qpairs) |-> qpairs[k].item.options], 1)
    IN  [templates |-> Append(db.templates, TemplateRow(name, user)),
         areas     |-> db.areas \o [k \in 1..Len(as) |-> AreaRow(tid, as[k], user)],
         scopes    |-> db.scopes \o
                       [k \in 1..Len(spairs) |-> ScopeRow(spairs[k].parent, spairs[k].item, user)],
         questions |-> db.questions \o
                       [k \in 1..Len(qpairs) |-> QuestionRow(qpairs[k].parent, qpairs[k].item, user)],
         options   |-> db.options \o
                       [k \in 1..Len(opairs) |-> OptionRow(opairs[k].parent, opairs[k].item, user)]]

(***************************************************************************)
(* AuditTemplateService.update_template: the ID-based merge.               *)
(* `old` is the tree as loaded at the start of the request: the            *)
(* relationship collections (area.scopes, scope.questions,                 *)
(* question.options) are those of the load and do not see the rows added   *)
(* during the request.  `st` is [db, log]: the rows as staged so far and,  *)
(* for every payload item handled, the node it was bound to.               *)
(***************************************************************************)
\* the ids a payload collection carries: {p.id for p in items if p.id}
PayloadIds(items) == {items[k].id : k \in 1..Len(items)} \ {None}

\* the loaded descendants of a set of loaded nodes
ScopesUnder(old, A) == UNION {LoadedScopes(old, a) : a \in A}
QuestionsUnder(old, S) == UNION {LoadedQuestions(old, x) : x \in S}
OptionsUnder(old, Q) == UNION {LoadedOptions(old, q) : q \in Q}

\* a lookup that binds an item it cannot find by id to the first loaded node
FindExistingOrFirst(p, existing) ==
    IF p.id /= None /\ p.id \in existing THEN p.id
    ELSE IF existing /= {} THEN CHOOSE n \in existing : \A m \in existing : n <= m
    ELSE None

\* a lookup by id alone, whatever the parent has loaded
FindExistingAnywhere(p, existing) == p.id

\* "if p.id and p.id in existing: obj = existing[p.id]": the loaded node a
\* payload item is merged into, or None when the item is created
FindExisting(p, existing) ==
    IF p.id /= None /\ p.id \in existing THEN p.id ELSE None

Bound(lvl, pos, p, node, created) ==
    [lvl |-> lvl, pos |-> pos, pid |-> p.id, node |-> node, created |-> created]

\* "Soft-delete options not in payload"
SoftDeleteOptions(db, O, user) ==
    [db EXCEPT !.options = Deactivate(db.options, O, user)]

\* "Soft-delete questions not in payload", with their loaded options
SoftDeleteQuestions(db, old, Q, user) ==
    SoftDeleteOptions([db EXCEPT !.questions = Deactivate(db.questions, Q, user)],
                      OptionsUnder(old, Q), user)

\* "Soft-delete scopes not in payload", with their loaded questions and options
SoftDeleteScopes(db, old, S, user) ==
    SoftDeleteQuestions([db EXCEPT !.scopes = Deactivate(db.scopes, S, user)],
                        old, QuestionsUnder(old, S), user)

\* "Soft-delete areas not in payload", with all their loaded children
SoftDeleteAreas(db, old, A, user) ==
    SoftDeleteScopes([db EXCEPT !.areas = Deactivate(db.areas, A, user)],
                     old, ScopesUnder(old, A), user)

RECURSIVE MergeOptions(_, _, _, _, _, _, _)
\* "for o_payload in q_payload.options"
MergeOptions(st, existing, qid, items, k, user, pos) ==
    IF k > Len(items) THEN st
    ELSE LET p == items[k]
             matched == FindExisting(p, existing) /= None
             node == IF matched THEN FindExisting(p, existing) ELSE Len(st.db.options) + 1
             rows == IF matched
                     THEN [st.db.options EXCEPT
                             ![node] = Stamp([@ EXCEPT !.label = p.label, !.value = p.value], user)]
                     ELSE Append(st.db.options, OptionRow(qid, p, user))
         IN  MergeOptions([db  |-> [st.db EXCEPT !.options = rows],
                           log |-> Append(st.log, Bound("option", Append(pos, k), p, node, ~matched))],
                          existing, qid, items, k + 1, user, pos)

RECURSIVE MergeQuestionsKeepsOptions(_, _, _, _, _, _, _, _)
\* a merge in which a question created new still matches the options its
\* payload id has
MergeQuestionsKeepsOptions(st, old, existing, sid, items, k, user, pos) ==
    IF k > Len(items) THEN st
    ELSE LET p == items[k]
             matched == FindExisting(p, existing) /= None
             node == IF matched THEN FindExisting(p, existing) ELSE Len(st.db.questions) + 1
             rows == IF matched
                     THEN [st.db.questions EXCEPT
                             ![node] = Stamp([@ EXCEPT !.text = p.text,
                                                       !.percentage = p.percentage,
                                                       !.is_mandatory = p.is_mandatory], user)]
                     ELSE Append(st.db.questions, QuestionRow(sid, p, user))
             existing_options == LoadedOptions(old, p.id)
             dropped == existing_options \ PayloadIds(p.options)
             st1 == [db  |-> SoftDeleteOptions([st.db EXCEPT !.questions = rows], dropped, user),
                     log |-> Append(st.log, Bound("question", Append(pos, k), p, node, ~matched))]
             st2 == MergeOptions(st1, existing_options, node, p.options, 1, user, Append(pos, k))
         IN  MergeQuestionsKeepsOptions(st2, old, existing, sid, items, k + 1, user, pos)

RECURSIVE MergeQuestions(_, _, _, _, _, _, _, _)
\* "for q_payload in scope_payload.questions"
MergeQuestions(st, old, existing, sid, items, k, user, pos) ==
    IF k > Len(items) THEN st
    ELSE LET p == items[k]
             matched == FindExisting(p, existing) /= None
             node == IF matched THEN FindExisting(p, existing) ELSE Len(st.db.questions) + 1
             rows == IF matched
                     THEN [st.db.questions EXCEPT
                             ![node] = Stamp([@ EXCEPT !.text = p.text,
                                                       !.percentage = p.percentage,
                                                       !.is_mandatory = p.is_mandatory], user)]
                     ELSE Append(st.db.questions, QuestionRow(sid, p, user))
             existing_options == IF matched THEN LoadedOptions(old, node) ELSE {}
             dropped == existing_options \ PayloadIds(p.options)
             st1 == [db  |-> SoftDeleteOptions([st.db EXCEPT !.questions = rows], dropped, user),
                     log |-> Append(st.log, Bound("question", Append(pos, k), p, node, ~matched))]
             st2 == MergeOptions(st1, existing_options, node, p.options, 1, user, Append(pos, k))
         IN  MergeQuestions(st2, old, existing, sid, items, k + 1, user, pos)

RECURSIVE MergeScopes(_, _, _, _, _, _, _, _)
\* "for scope_payload in area_payload.scopes"
MergeScopes(st, old, existing, aid, items, k, user, pos) ==
    IF k > Len(items) THEN st
    ELSE LET p == items[k]
             matched == FindExisting(p, existing) /= None
             node == IF matched THEN FindExisting(p, existing) ELSE Len(st.db.scopes) + 1
             rows == IF matched
                     THEN [st.db.scopes EXCEPT ![node] = Stamp([@ EXCEPT !.name = p.name], user)]
                     ELSE Append(st.db.scopes, ScopeRow(aid, p, user))
             existing_questions == IF matched THEN LoadedQuestions(old, node) ELSE {}
             dropped == existing_questions \ PayloadIds(p.questions)
             st1 == [db  |-> SoftDeleteQuestions([st.db EXCEPT !.scopes = rows], old, dropped, user),
                     log |-> Append(st.log, Bound("scope", Append(pos, k), p, node, ~matched))]
             st2 == MergeQuestions(st1, old, existing_questions, node, p.questions, 1, user,
                                   Append(pos, k))
         IN  MergeScopes(st2, old, existing, aid, items, k + 1, user, pos)

RECURSIVE MergeAreas(_, _, _, _, _, _, _)
\* "for area_payload in payload.areas"
MergeAreas(st, old, existing, tid, items, k, user) ==
    IF k > Len(items) THEN st
    ELSE LET p == items[k]
             matched == FindExisting(p, existing) /= None
             node == IF matched THEN FindExisting(p, existing) ELSE Len(st.db.areas) + 1
             rows == IF matched
                     THEN [st.db.areas EXCEPT
                             ![node] = Stamp([@ EXCEPT !.name = p.name,
                                                       !.weightage = p.weightage], user)]
                     ELSE Append(st.db.areas, AreaRow(tid, p, user))
             existing_scopes == IF matched THEN LoadedScopes(old, node) ELSE {}
             dropped == existing_scopes \ PayloadIds(p.scopes)
             st1 == [db  |-> SoftDeleteScopes([st.db EXCEPT !.areas = rows], old, dropped, user),
                     log |-> Append(st.log, Bound("area", <<k>>, p, node, ~matched))]
             st2 == MergeScopes(st1, old, existing_scopes, node, p.scopes, 1, user, <<k>>)
         IN  MergeAreas(st2, old, existing, tid, items, k + 1, user)

RECURSIVE FlushesAtCommitOnly(_, _, _)
\* a session that writes nothing before the commit
FlushesAtCommitOnly(log, k, pending) ==
    IF k > Len(log) THEN (IF pending = <<>> THEN <<>> ELSE <<pending>>)
    ELSE FlushesAtCommitOnly(log, k + 1,
                             IF log[k].created THEN Append(pending, log[k]) ELSE pending)

RECURSIVE Flushes(_, _, _)
\* the INSERTs of update_template, flush by flush: a new area, scope or
\* question is flushed when it is added ("self.db.add(obj); await
\* self.db.flush()"), with the new options added since the last flush,
\* parents' tables first; the commit flushes the options that are left
Flushes(log, k, pending) ==
    IF k > Len(log) THEN (IF pending = <<>> THEN <<>> ELSE <<pending>>)
    ELSE IF ~log[k].created THEN Flushes(log, k + 1, pending)
    ELSE IF log[k].lvl = "option" THEN Flushes(log, k + 1, Append(pending, log[k]))
    ELSE <<(<<log[k]>> \o pending)>> \o Flushes(log, k + 1, <<>>)

\* the writes update_template stages after the validators passed:
\* the template's name and stamp, the soft delete of the areas the payload
\* does not name, and the merge of the payload's areas
MergeTree(old, tid, name, as, user) ==
    LET existing_areas == LoadedAreas(old, tid)
        named == [old EXCEPT !.templates[tid] = Stamp([@ EXCEPT !.name = name], user)]
        swept == SoftDeleteAreas(named, old, existing_areas \ PayloadIds(as), user)
    IN  MergeAreas([db |-> swept, log |-> <<>>], old, existing_areas, tid, as, 1, user)

(***************************************************************************)
(* The service operations as functions of the database: each yields the    *)
(* status of the response, the validator that raised (err), the rows       *)
(* staged in the session, whether the session was committed, the id of the *)
(* template the response shows and the bindings of the payload items.      *)
(* `fail` is a storage failure: the last statement of the request, its     *)
(* commit, raises.                                                         *)
(***************************************************************************)
Outcome(status, err, staged, committed, tid, log) ==
    [status |-> status, err |-> err, staged |-> staged, committed |-> committed,
     tid |-> tid, log |-> log]

Rejected(db, status, err) == Outcome(status, err, db, FALSE, None, <<>>)

\* AuditTemplateService.create_template
create_template(db, name, as, user, fail) ==
    IF Cardinality(get_by_name(db, name)) > 1
    THEN Rejected(db, HTTP_500_INTERNAL_SERVER_ERROR, "multiple")
    ELSE IF get_by_name(db, name) /= {}
    THEN Rejected(db, HTTP_409_CONFLICT, "name")
    ELSE IF ValidateAll(as) /= "ok"
    THEN Rejected(db, HTTP_422_UNPROCESSABLE_ENTITY, ValidateAll(as))
    ELSE LET staged == create_with_tree(db, name, as, user)
         IN  IF fail
             THEN Outcome(HTTP_500_INTERNAL_SERVER_ERROR, "storage", staged, FALSE, None, <<>>)
             ELSE Outcome(HTTP_201_CREATED, "ok", staged, TRUE, Len(staged.templates), <<>>)

\* an update that checks the name also when it is the template's own
UpdateAlwaysChecksName(db, template_id, name, as, user, fail) ==
    IF get_by_id_with_details(db, template_id) = None
    THEN Rejected(db, HTTP_404_NOT_FOUND, "template")
    ELSE IF get_by_name(db, name) /= {}
    THEN Rejected(db, HTTP_409_CONFLICT, "name")
    ELSE IF ValidateAll(as) /= "ok"
    THEN Rejected(db, HTTP_422_UNPROCESSABLE_ENTITY, ValidateAll(as))
    ELSE LET st == MergeTree(db, template_id, name, as, user)
         IN  IF fail
             THEN Outcome(HTTP_500_INTERNAL_SERVER_ERROR, "storage", st.db, FALSE, None, <<>>)
             ELSE Outcome(HTTP_200_OK, "ok", st.db, TRUE, template_id, st.log)

\* AuditTemplateService.update_template
update_template(db, template_id, name, as, user, fail) ==
    IF get_by_id_with_details(db, template_id) = None
    THEN Rejected(db, HTTP_404_NOT_FOUND, "template")
    ELSE IF name /= db.templates[template_id].name /\ Cardinality(get_by_name(db, name)) > 1
    THEN Rejected(db, HTTP_500_INTERNAL_SERVER_ERROR, "multiple")
    ELSE IF name /= db.templates[template_id].name /\ get_by_name(db, name) /= {}
    THEN Rejected(db, HTTP_409_CONFLICT, "name")
    ELSE IF ValidateAll(as) /= "ok"
    THEN Rejected(db, HTTP_422_UNPROCESSABLE_ENTITY, ValidateAll(as))
    ELSE LET st == MergeTree(db, template_id, name, as, user)
         IN  IF fail
             THEN Outcome(HTTP_500_INTERNAL_SERVER_ERROR, "storage", st.db, FALSE, None, <<>>)
             ELSE Outcome(HTTP_200_OK, "ok", st.db, TRUE, template_id, st.log)

\* a clone that stamps its source
CloneStampsSource(db, template_id, name, as, user, fail) ==
    IF get_by_id(db, template_id) = None
    THEN Rejected(db, HTTP_404_NOT_FOUND, "template")
    ELSE LET out == create_template(db, name, as, user, fail)
         IN  IF out.committed
             THEN [out EXCEPT !.staged.templates[template_id] = Stamp(@, user)]
             ELSE out

\* AuditTemplateService.clone_template
clone_template(db, template_id, name, as, user, fail) ==
    IF get_by_id(db, template_id) = None
    THEN Rejected(db, HTTP_404_NOT_FOUND, "template")
    ELSE IF Cardinality(get_by_name(db, name)) > 1
    THEN Rejected(db, HTTP_500_INTERNAL_SERVER_ERROR, "multiple")
    ELSE IF get_by_name(db, name) /= {}
    THEN Rejected(db, HTTP_409_CONFLICT, "name")
    ELSE IF ValidateAll(as) /= "ok"
    THEN Rejected(db, HTTP_422_UNPROCESSABLE_ENTITY, ValidateAll(as))
    ELSE LET staged == create_with_tree(db, name, as, user)
         IN  IF fail
             THEN Outcome(HTTP_500_INTERNAL_SERVER_ERROR, "storage", staged, FALSE, None, <<>>)
             ELSE Outcome(HTTP_201_CREATED, "ok", staged, TRUE, Len(staged.templates), <<>>)

\* a seed that never looks for the default template
SeedAlwaysCreates(db, user, fail) ==
    LET staged == create_with_tree(db, DEFAULT_TEMPLATE_NAME, DEFAULT_AREAS, user)
    IN  IF fail
        THEN Outcome(HTTP_500_INTERNAL_SERVER_ERROR, "storage", staged, FALSE, None, <<>>)
        ELSE Outcome(HTTP_200_OK, "ok", staged, TRUE, Len(staged.templates), <<>>)

\* a seed that runs the validators on the default areas
SeedValidates(db, user, fail) ==
    IF get_by_name(db, DEFAULT_TEMPLATE_NAME) /= {}
    THEN Outcome(HTTP_200_OK, "ok", db, FALSE,
                 CHOOSE t \in get_by_name(db, DEFAULT_TEMPLATE_NAME) : TRUE, <<>>)
    ELSE create_template(db, DEFAULT_TEMPLATE_NAME, DEFAULT_AREAS, user, fail)

\* AuditTemplateService.seed_default_template
seed_default_template(db, user, fail) ==
    LET existing == get_by_name(db, DEFAULT_TEMPLATE_NAME)
    IN  IF Cardinality(existing) > 1
        THEN Rejected(db, HTTP_500_INTERNAL_SERVER_ERROR, "multiple")
        ELSE IF existing /= {}
        THEN Outcome(HTTP_200_OK, "ok", db, FALSE, CHOOSE t \in existing : TRUE, <<>>)
        ELSE LET staged == create_with_tree(db, DEFAULT_TEMPLATE_NAME, DEFAULT_AREAS, user)
             IN  IF fail
                 THEN Outcome(HTTP_500_INTERNAL_SERVER_ERROR, "storage", staged, FALSE, None, <<>>)
                 ELSE Outcome(HTTP_200_OK, "ok", staged, TRUE, Len(staged.templates), <<>>)

\* AuditTemplateService.get_template_detail
get_template_detail(db, template_id) ==
    IF get_by_id_with_details(db, template_id) = None
    THEN Rejected(db, HTTP_404_NOT_FOUND, "template")
    ELSE Outcome(HTTP_200_OK, "ok", db, FALSE, template_id, <<>>)

\* a delete that removes the row
HardDelete(rows, id, user) == SubSeq(rows, 1, id - 1) \o SubSeq(rows, id + 1, Len(rows))

\* the soft_delete of the four repositories: the row itself, nothing below it
soft_delete(rows, id, user) == Deactivate(rows, {id}, user)

\* AuditTemplateService.delete_template
delete_template(db, template_id, user) ==
    IF get_by_id(db, template_id) = None
    THEN Rejected(db, HTTP_404_NOT_FOUND, "template")
    ELSE Outcome(HTTP_204_NO_CONTENT, "ok",
                 [db EXCEPT !.templates = soft_delete(db.templates, template_id, user)],
                 TRUE, None, <<>>)

\* AuditAreaService.delete_area
delete_area(db, area_id, user) ==
    IF ~(area_id \in 1..Len(db.areas) /\ db.areas[area_id].isactive)
    THEN Rejected(db, HTTP_404_NOT_FOUND, "area")
    ELSE Outcome(HTTP_204_NO_CONTENT, "ok",
                 [db EXCEPT !.areas = soft_delete(db.areas, area_id, user)], TRUE, None, <<>>)

\* AuditQuestionService.delete_scope
delete_scope(db, scope_id, user) ==
    IF ~(scope_id \in 1..Len(db.scopes) /\ db.scopes[scope_id].isactive)
    THEN Rejected(db, HTTP_404_NOT_FOUND, "scope")
    ELSE Outcome(HTTP_204_NO_CONTENT, "ok",
                 [db EXCEPT !.scopes = soft_delete(db.scopes, scope_id, user)], TRUE, None, <<>>)

\* AuditQuestionService.delete_question
delete_question(db, question_id, user) ==
    IF ~(question_id \in 1..Len(db.questions) /\ db.questions[question_id].isactive)
    THEN Rejected(db, HTTP_404_NOT_FOUND, "question")
    ELSE Outcome(HTTP_204_NO_CONTENT, "ok",
                 [db EXCEPT !.questions = soft_delete(db.questions, question_id, user)],
                 TRUE, None, <<>>)

\* AuditQuestionService.delete_option
delete_option(db, option_id, user) ==
    IF ~(option_id \in 1..Len(db.options) /\ db.options[option_id].isactive)
    THEN Rejected(db, HTTP_404_NOT_FOUND, "option")
    ELSE Outcome(HTTP_204_NO_CONTENT, "ok",
                 [db EXCEPT !.options = soft_delete(db.options, option_id, user)],
                 TRUE, None, <<>>)

(***************************************************************************)
(* Inputs of the requests.                                                 *)
(*                                                                         *)
(* A payload tree has one or two branches.  The ids its items carry are    *)
(* those of one chain area/scope/question/option the client has read (the  *)
(* target), down to a depth m; below m the items carry no id.              *)
(***************************************************************************)
Users == {1, 2}

NameQ == <<"Q">>
NameQv == <<"q", " ">>
NameR == <<"R">>
NameT == <<"T">>
NameTv == <<"t">>

TemplateNames == {DEFAULT_TEMPLATE_NAME, NameT, NameTv}

OptionItem(id, label, value) == [id |-> id, label |-> label, value |-> value]

QuestionItem(id, text, percentage, is_mandatory, os) ==
    [id |-> id, text |-> text, percentage |-> percentage,
     is_mandatory |-> is_mandatory, options |-> os]

ScopeItem(id, name, qs) == [id |-> id, name |-> name, questions |-> qs]

AreaItem(id, name, weightage, ss) ==
    [id |-> id, name |-> name, weightage |-> weightage, scopes |-> ss]

\* the id an item of level l carries when the target chain is named down to depth m
IdAt(pth, m, l) == IF l <= m THEN pth[l] ELSE None

\* the loaded chains of a template, padded with None where a node has no child
PathsOf(db, tid) ==
    LET OfQuestion(a, x, q) ==
            IF LoadedOptions(db, q) = {} THEN {<<a, x, q, None>>}
            ELSE {<<a, x, q, o>> : o \in LoadedOptions(db, q)}
        OfScope(a, x) ==
            IF LoadedQuestions(db, x) = {} THEN {<<a, x, None, None>>}
            ELSE UNION {OfQuestion(a, x, q) : q \in LoadedQuestions(db, x)}
        OfArea(a) ==
            IF LoadedScopes(db, a) = {} THEN {<<a, None, None, None>>}
            ELSE UNION {OfScope(a, x) : x \in LoadedScopes(db, a)}
    IN  IF LoadedAreas(db, tid) = {} THEN {<<None, None, None, None>>}
        ELSE UNION {OfArea(a) : a \in LoadedAreas(db, tid)}

\* one branch from a level down to its option: the top item is named `top`,
\* the items below it `low`
BranchOption(pth, m, top, v) == OptionItem(IdAt(pth, m, 4), top, v)

BranchQuestion(pth, m, top, low, pct, mand, depth) ==
    QuestionItem(IdAt(pth, m, 3), top, pct, mand,
                 IF depth >= 4 THEN <<BranchOption(pth, m, low, 1)>> ELSE <<>>)

BranchScope(pth, m, top, low, pct, mand, depth) ==
    ScopeItem(IdAt(pth, m, 2), top,
              IF depth >= 3 THEN <<BranchQuestion(pth, m, low, low, pct, mand, depth)>> ELSE <<>>)

BranchArea(pth, m, top, low, w, pct, mand, depth) ==
    AreaItem(IdAt(pth, m, 1), top, w,
             IF depth >= 2 THEN <<BranchScope(pth, m, low, low, pct, mand, depth)>> ELSE <<>>)

\* a tree of one branch, cut below `depth` levels
Single(pth, m, nm, pct, depth) ==
    <<BranchArea(pth, m, nm, nm, IF nm = NameQ THEN 60 ELSE 100, pct, TRUE, depth)>>

\* a tree of two branches that share their first j levels; the second branch
\* names the target down to depth m2, its top item is named nm2
Fork(pth, j, m1, m2, nm2, v2) ==
    LET o1 == BranchOption(pth, m1, NameQ, 1)
        o2 == BranchOption(pth, m2, nm2, v2)
        q1 == BranchQuestion(pth, m1, NameQ, NameQ, 50, TRUE, 4)
        q2 == BranchQuestion(pth, m2, nm2, NameQ, 50, FALSE, 4)
        s1 == BranchScope(pth, m1, NameQ, NameQ, 50, TRUE, 4)
        s2 == BranchScope(pth, m2, nm2, NameQ, 50, FALSE, 4)
        a1 == BranchArea(pth, m1, NameQ, NameQ, 60, 50, TRUE, 4)
        a2 == BranchArea(pth, m2, nm2, NameQ, 40, 50, FALSE, 4)
    IN  CASE j = 0 -> <<a1, a2>>
          [] j = 1 -> <<AreaItem(IdAt(pth, m1, 1), NameQ, 60, <<s1, s2>>)>>
          [] j = 2 -> <<AreaItem(IdAt(pth, m1, 1), NameQ, 60,
                          <<ScopeItem(IdAt(pth, m1, 2), NameQ, <<q1, q2>>)>>)>>
          [] j = 3 -> <<AreaItem(IdAt(pth, m1, 1), NameQ, 60,
                          <<ScopeItem(IdAt(pth, m1, 2), NameQ,
                              <<QuestionItem(IdAt(pth, m1, 3), NameQ, 100, TRUE, <<o1, o2>>)>>)>>)>>

NoPath == <<None, None, None, None>>

\* the payload trees built on one target chain, its ids named down to the
\* depths in M
Family(pth, M) ==
    LET top == CHOOSE m \in M : \A n \in M : n <= m
    IN  {<<>>}
        \cup {Single(pth, m, nm, 100, 4) : m \in M, nm \in {NameQ, NameR}}
        \cup {Single(pth, top, NameQ, 100, depth) : depth \in 1..3}
        \cup {Single(pth, top, NameQ, pct, 4) : pct \in {0, 50}}
        \cup {Single(pth, top, NameQ, 100, 4) \o Single(pth, 0, NameR, 100, 4)}
        \cup {Single(pth, top, NameQ, 100, 4) \o Single(pth, 0, NameQv, 100, 1)}
        \cup UNION {{Fork(pth, j, m1, m2, NameR, 1) :
                        m1 \in M \cap {0, j + 1, 4}, m2 \in M \cap {0, j + 1}} : j \in 0..2}
        \cup {Fork(pth, j, top, 0, NameQv, 1) : j \in 0..2}
        \cup {Fork(pth, 3, m1, m2, NameR, 0) : m1 \in M \cap {0, 4}, m2 \in M \cap {0, 4}}
        \cup {Fork(pth, 3, top, 0, NameQv, 0), Fork(pth, 3, top, 0, NameR, 1)}
        \cup {Fork(pth, 3, top, 0, NameQv, 1)}
        \cup {Single(pth, top, NameQ, 100, 4) \o Single(pth, 0, NameQv, 100, 4)}

\* the chains area/scope/question/option of the rows of the database, of any
\* template, active or not: the ids a client may have read at some time
RowChains(db) ==
    {<<db.scopes[db.questions[db.options[o].question_id].scope_id].area_id,
       db.questions[db.options[o].question_id].scope_id,
       db.options[o].question_id, o>> : o \in 1..Len(db.options)}

\* a tree of one branch whose item of level l carries no id
WithoutId(as, l) ==
    CASE l = 1 -> <<[as[1] EXCEPT !.id = None]>>
      [] l = 2 -> <<[as[1] EXCEPT !.scopes[1].id = None]>>
      [] l = 3 -> <<[as[1] EXCEPT !.scopes[1].questions[1].id = None]>>

\* the payload trees that carry the ids of a chain of rows: the whole chain,
\* the chain below an item without id, and the chain twice, once whole and
\* once below an area without id
StaleTrees(c) ==
    {Single(c, 4, NameR, 100, 4)}
    \cup {WithoutId(Single(c, 4, NameR, 100, 4), l) : l \in 1..3}
    \cup {Single(c, 4, NameQ, 50, 4) \o WithoutId(Single(c, 4, NameR, 50, 4), 1)}

Request(name, as, user, fail) ==
    [name |-> name, areas |-> as, user |-> user, fail |-> fail]

\* the requests that differ from one request in its name, or in its caller, or
\* in the outcome of its commit
Variations(name, as) ==
    {Request(n, as, 1, FALSE) : n \in TemplateNames}
    \cup {Request(name, as, u, f) : u \in Users, f \in BOOLEAN}

\* create requests: the payloads carry no ids (AreaCreateNested has no id
\* field); the one-branch tree under every name, caller and storage outcome,
\* and every tree of the family
CreateRequests ==
    Variations(NameT, Single(NoPath, 0, NameQ, 100, 4))
    \cup {Request(NameT, as, 1, FALSE) : as \in Family(NoPath, {0})}

\* clone requests: as create requests, under the names a clone can take
CloneRequests ==
    Variations(NameTv, Single(NoPath, 0, NameQ, 100, 4))
    \cup {Request(NameTv, as, 1, FALSE) : as \in Family(NoPath, {0})}

\* update requests: a chain of the template sent back as read under every
\* name, caller and storage outcome, the same with a total of 50 under
\* every name, and every tree of the family under the template's current
\* name
UpdateRequests(db, tid) ==
    IF get_by_id_with_details(db, tid) = None
    THEN {Request(NameT, Single(NoPath, 0, NameQ, pct, 4), 1, FALSE) : pct \in {50, 100}}
    ELSE UNION {
           Variations(db.templates[tid].name, Single(pth, 4, NameQ, 100, 4))
           \cup {Request(n, Single(pth, 4, NameQ, 50, 4), 1, FALSE) : n \in TemplateNames}
           \cup {Request(db.templates[tid].name, as, 2, FALSE) : as \in Family(pth, 0..4)}
           : pth \in PathsOf(db, tid)}
         \cup {Request(db.templates[tid].name, as, 2, FALSE) :
                  as \in UNION {StaleTrees(c) : c \in RowChains(db)}}

(***************************************************************************)
(* The state machine: one request at a time.  A handler runs from its      *)
(* first read to its response; resp keeps the request and its response     *)
(* until the request ends (EndRequest).                                    *)
(***************************************************************************)
NoResp ==
    [op |-> "none", status |-> 0, err |-> "none", arg |-> None, tid |-> None,
     name |-> <<>>, areas |-> <<>>, user |-> None, log |-> <<>>,
     before |-> [templates |-> <<>>, areas |-> <<>>, scopes |-> <<>>,
                 questions |-> <<>>, options |-> <<>>]]

Sessions == 1..MaxSessions

\* a session of the pool that serves no request
IdleSession ==
    [phase |-> "idle", op |-> "none", arg |-> None, req |-> Request(<<>>, <<>>, None, FALSE),
     status |-> 0, committed |-> FALSE, before |-> NoResp.before,
     staged |-> NoResp.before, began |-> 0, ended |-> 0,
     first |-> <<0, 0, 0, 0, 0>>]

Response(op, arg, name, as, user, out) ==
    [op |-> op, status |-> out.status, err |-> out.err, arg |-> arg, tid |-> out.tid,
     name |-> name, areas |-> as, user |-> user, log |-> out.log, before |-> DB]

\* the request's session ends: the database is what the request committed
Serve(op, arg, name, as, user, out) ==
    LET db == SessionClose(DB, out.staged, out.committed)
    IN  /\ templates' = db.templates
        /\ areas' = db.areas
        /\ scopes' = db.scopes
        /\ questions' = db.questions
        /\ options' = db.options
        /\ resp' = Response(op, arg, name, as, user, out)
        /\ UNCHANGED sess

Write(op, arg, name, as, user, out) ==
    /\ nops' = nops + 1
    /\ Serve(op, arg, name, as, user, out)

Delete(op, arg, user, out) == Write(op, arg, <<>>, <<>>, user, out)

Init ==
    /\ templates = <<>>
    /\ areas = <<>>
    /\ scopes = <<>>
    /\ questions = <<>>
    /\ options = <<>>
    /\ resp = NoResp
    /\ nops = 0
    /\ sess = [s \in Sessions |-> IdleSession]

CreateTemplate ==
    /\ resp.op = "none"
    /\ nops < MaxOps
    /\ \E r \in CreateRequests :
        Write("create", None, r.name, r.areas, r.user,
              create_template(DB, r.name, r.areas, r.user, r.fail))

UpdateTemplate ==
    /\ resp.op = "none"
    /\ nops < MaxOps
    /\ \E tid \in 1..(Len(templates) + 1) :
        \E r \in UpdateRequests(DB, tid) :
            Write("update", tid, r.name, r.areas, r.user,
                  update_template(DB, tid, r.name, r.areas, r.user, r.fail))

CloneTemplate ==
    /\ resp.op = "none"
    /\ nops < MaxOps
    /\ \E tid \in 1..(Len(templates) + 1), r \in CloneRequests :
        Write("clone", tid, r.name, r.areas, r.user,
              clone_template(DB, tid, r.name, r.areas, r.user, r.fail))

SeedDefaultTemplate ==
    /\ resp.op = "none"
    /\ nops < MaxOps
    /\ \E user \in Users, fail \in BOOLEAN :
        Write("seed", None, DEFAULT_TEMPLATE_NAME, <<>>, user,
              seed_default_template(DB, user, fail))

GetTemplateDetail ==
    /\ resp.op = "none"
    /\ nops < MaxOps
    /\ \E tid \in 1..(Len(templates) + 1) :
        Write("detail", tid, <<>>, <<>>, None, get_template_detail(DB, tid))

DeleteTemplate ==
    /\ resp.op = "none"
    /\ nops < MaxOps
    /\ \E tid \in 1..(Len(templates) + 1), user \in Users :
        Delete("delete_template", tid, user, delete_template(DB, tid, user))

DeleteArea ==
    /\ resp.op = "none"
    /\ nops < MaxOps
    /\ \E id \in 1..(Len(areas) + 1), user \in Users :
        Delete("delete_area", id, user, delete_area(DB, id, user))

DeleteScope ==
    /\ resp.op = "none"
    /\ nops < MaxOps
    /\ \E id \in 1..(Len(scopes) + 1), user \in Users :
        Delete("delete_scope", id, user, delete_scope(DB, id, user))

DeleteQuestion ==
    /\ resp.op = "none"
    /\ nops < MaxOps
    /\ \E id \in 1..(Len(questions) + 1), user \in Users :
        Delete("delete_question", id, user, delete_question(DB, id, user))

DeleteOption ==
    /\ resp.op = "none"
    /\ nops < MaxOps
    /\ \E id \in 1..(Len(options) + 1), user \in Users :
        Delete("delete_option", id, user, delete_option(DB, id, user))

EndRequest ==
    /\ resp.op /= "none"
    /\ resp' = NoResp
    /\ UNCHANGED <<templates, areas, scopes, questions, options, nops, sess>>

Next ==
    \/ CreateTemplate
    \/ UpdateTemplate
    \/ CloneTemplate
    \/ SeedDefaultTemplate
    \/ GetTemplateDetail
    \/ DeleteTemplate
    \/ DeleteArea
    \/ DeleteScope
    \/ DeleteQuestion
    \/ DeleteOption
    \/ EndRequest

Spec == Init /\ [][Next]_vars

(***************************************************************************)
(* Vocabulary of the properties.  A property is stated on the state in     *)
(* which a request has been answered: resp holds the request, its response *)
(* and the database the request started from.                              *)
(***************************************************************************)
TreeOps == {"create", "update", "clone"}

Succeeded == resp.status \in {HTTP_200_OK, HTTP_201_CREATED}

Updated == resp.op = "update" /\ resp.status = HTTP_200_OK

\* the rows that point to a set of parents, active or not
ScopeRowsBelow(db, A) == {x \in 1..Len(db.scopes) : db.scopes[x].area_id \in A}
QuestionRowsBelow(db, S) == {q \in 1..Len(db.questions) : db.questions[q].scope_id \in S}
OptionRowsBelow(db, Q) == {o \in 1..Len(db.options) : db.options[o].question_id \in Q}

\* no active row at or below a question, a scope, an area
InactiveQuestionTree(db, q) ==
    /\ ~db.questions[q].isactive
    /\ \A o \in OptionRowsBelow(db, {q}) : ~db.options[o].isactive

InactiveScopeTree(db, x) ==
    /\ ~db.scopes[x].isactive
    /\ \A q \in QuestionRowsBelow(db, {x}) : InactiveQuestionTree(db, q)

InactiveAreaTree(db, a) ==
    /\ ~db.areas[a].isactive
    /\ \A x \in ScopeRowsBelow(db, {a}) : InactiveScopeTree(db, x)

\* the positions of the payload's items: <<i>> an area, <<i, j>> a scope of
\* it, <<i, j, k>> a question, <<i, j, k, l>> an option
AreaPositions == {<<i>> : i \in 1..Len(resp.areas)}

ScopePositions ==
    UNION {{Append(pos, j) : j \in 1..Len(resp.areas[pos[1]].scopes)} : pos \in AreaPositions}

QuestionPositions ==
    UNION {{Append(pos, k) : k \in 1..Len(resp.areas[pos[1]].scopes[pos[2]].questions)}
           : pos \in ScopePositions}

OptionPositions ==
    UNION {{Append(pos, l) :
              l \in 1..Len(resp.areas[pos[1]].scopes[pos[2]].questions[pos[3]].options)}
           : pos \in QuestionPositions}

Positions(lvl) ==
    CASE lvl = 1 -> AreaPositions
      [] lvl = 2 -> ScopePositions
      [] lvl = 3 -> QuestionPositions
      [] lvl = 4 -> OptionPositions

ItemAt(pos) ==
    CASE Len(pos) = 1 -> resp.areas[pos[1]]
      [] Len(pos) = 2 -> resp.areas[pos[1]].scopes[pos[2]]
      [] Len(pos) = 3 -> resp.areas[pos[1]].scopes[pos[2]].questions[pos[3]]
      [] Len(pos) = 4 -> resp.areas[pos[1]].scopes[pos[2]].questions[pos[3]].options[pos[4]]

ParentPos(pos) == SubSeq(pos, 1, Len(pos) - 1)

\* the active children of level lvl the request found under a parent
LoadedUnder(lvl, parent) ==
    CASE lvl = 1 -> LoadedAreas(resp.before, parent)
      [] lvl = 2 -> LoadedScopes(resp.before, parent)
      [] lvl = 3 -> LoadedQuestions(resp.before, parent)
      [] lvl = 4 -> LoadedOptions(resp.before, parent)

\* the item at a position names a persisted active node under the node its
\* parent item names
RECURSIVE MatchedAt(_)
MatchedAt(pos) ==
    IF Len(pos) = 1
    THEN ItemAt(pos).id \in LoadedUnder(1, resp.arg)
    ELSE /\ MatchedAt(ParentPos(pos))
         /\ ItemAt(pos).id \in LoadedUnder(Len(pos), ItemAt(ParentPos(pos)).id)

MatchedItems(lvl) == {ItemAt(pos) : pos \in {pos \in Positions(lvl) : MatchedAt(pos)}}

MatchedAreaItems == MatchedItems(1)
MatchedScopeItems == MatchedItems(2)
MatchedQuestionItems == MatchedItems(3)
MatchedOptionItems == MatchedItems(4)

\* the persisted active nodes the payload leaves out: no item under an item
\* that names their parent carries their id
OmittedAreas == LoadedAreas(resp.before, resp.arg) \ PayloadIds(resp.areas)

OmittedScopes ==
    UNION {LoadedScopes(resp.before, p.id)
             \ UNION {PayloadIds(r.scopes) : r \in {r \in MatchedAreaItems : r.id = p.id}}
           : p \in MatchedAreaItems}

OmittedQuestions ==
    UNION {LoadedQuestions(resp.before, p.id)
             \ UNION {PayloadIds(r.questions) : r \in {r \in MatchedScopeItems : r.id = p.id}}
           : p \in MatchedScopeItems}

OmittedOptions ==
    UNION {LoadedOptions(resp.before, p.id)
             \ UNION {PayloadIds(r.options) : r \in {r \in MatchedQuestionItems : r.id = p.id}}
           : p \in MatchedQuestionItems}

(***************************************************************************)
(* C1: after a successful update, every active node of the template whose  *)
(* id the payload leaves out under its matched parent is inactive, and so  *)
(* is every node below it.                                                 *)
(***************************************************************************)
C1_OmittedSubtreeInactive ==
    Updated =>
        /\ \A a \in OmittedAreas : InactiveAreaTree(DB, a)
        /\ \A x \in OmittedScopes : InactiveScopeTree(DB, x)
        /\ \A q \in OmittedQuestions : InactiveQuestionTree(DB, q)
        /\ \A o \in OmittedOptions : ~options[o].isactive

\* the request passes the lookup of its template (create looks nothing up)
TargetFound ==
    CASE resp.op = "update" -> get_by_id_with_details(resp.before, resp.arg) /= None
      [] resp.op = "clone" -> get_by_id(resp.before, resp.arg) /= None
      [] OTHER -> TRUE

\* the request passes the template-name check
NameFree ==
    \/ get_by_name(resp.before, resp.name) = {}
    \/ resp.op = "update" /\ resp.name = resp.before.templates[resp.arg].name

(***************************************************************************)
(* C2 as stated: create, update and clone accept a payload only if its     *)
(* question percentages sum to exactly 100, and answer every other total   *)
(* with 422.                                                               *)
(***************************************************************************)
C2_OtherTotals422 ==
    resp.op \in TreeOps =>
        /\ Succeeded => PayloadPercentageTotal(resp.areas) = 100
        /\ PayloadPercentageTotal(resp.areas) /= 100
              => resp.status = HTTP_422_UNPROCESSABLE_ENTITY

(***************************************************************************)
(* C2 amended: create, update and clone accept a payload only if its       *)
(* question percentages sum to exactly 100; every other total is rejected, *)
(* with 404 when the template of an update or clone is not found, else     *)
(* with 409 when the name check fails, else with 422.                      *)
(***************************************************************************)
C2_OtherTotalsRejected ==
    resp.op \in TreeOps =>
        /\ Succeeded => PayloadPercentageTotal(resp.areas) = 100
        /\ PayloadPercentageTotal(resp.areas) /= 100
              => resp.status = IF ~TargetFound THEN HTTP_404_NOT_FOUND
                               ELSE IF ~NameFree THEN HTTP_409_CONFLICT
                               ELSE HTTP_422_UNPROCESSABLE_ENTITY

\* a payload that passes every other validator is refused for a total above 100
C2_TotalAbove100Refused ==
    /\ resp.op \in TreeOps
    /\ PayloadPercentageTotal(resp.areas) > 100
    /\ resp.status = HTTP_422_UNPROCESSABLE_ENTITY
    /\ resp.err = "percentage"

(***************************************************************************)
(* C3: whenever create, update or clone fails (validation, name conflict,  *)
(* not found, or a storage failure after the writes were staged), no row   *)
(* is inserted, modified or deactivated: the database is the one the       *)
(* request started from.                                                   *)
(***************************************************************************)
C3_FailureChangesNothing ==
    resp.op \in TreeOps /\ ~Succeeded => DB = resp.before

\* an update of an existing tree passed every check, staged its writes and
\* failed in storage
C3_UpdateFailedInStorage ==
    /\ resp.op = "update"
    /\ resp.status = HTTP_500_INTERNAL_SERVER_ERROR
    /\ resp.err = "storage"
    /\ LoadedAreas(resp.before, resp.arg) /= {}
    /\ MergeTree(resp.before, resp.arg, resp.name, resp.areas, resp.user).db /= resp.before

\* the rows of the four levels
Table(db, lvl) ==
    CASE lvl = 1 -> db.areas
      [] lvl = 2 -> db.scopes
      [] lvl = 3 -> db.questions
      [] lvl = 4 -> db.options

\* the reference a row holds to its parent
ParentOf(lvl, row) ==
    CASE lvl = 1 -> row.template_id
      [] lvl = 2 -> row.area_id
      [] lvl = 3 -> row.scope_id
      [] lvl = 4 -> row.question_id

\* a row holds the mutable fields of a payload item
HoldsFields(lvl, row, p) ==
    CASE lvl = 1 -> row.name = p.name /\ row.weightage = p.weightage
      [] lvl = 2 -> row.name = p.name
      [] lvl = 3 -> /\ row.text = p.text
                    /\ row.percentage = p.percentage
                    /\ row.is_mandatory = p.is_mandatory
      [] lvl = 4 -> row.label = p.label /\ row.value = p.value

(***************************************************************************)
(* C4: after a successful update, every payload item that carries the id   *)
(* of an active persisted node under the same matched parent has updated   *)
(* that node in place: the node is active, has the parent it had, holds    *)
(* the item's fields, and the only new rows are those of the items that    *)
(* match no node.                                                          *)
(***************************************************************************)
C4_MatchedUpdatedInPlace ==
    Updated =>
        \A lvl \in 1..4 :
            /\ \A pos \in Positions(lvl) :
                  MatchedAt(pos) =>
                      LET p == ItemAt(pos)
                      IN  /\ Table(DB, lvl)[p.id].isactive
                          /\ ParentOf(lvl, Table(DB, lvl)[p.id])
                               = ParentOf(lvl, Table(resp.before, lvl)[p.id])
                          /\ HoldsFields(lvl, Table(DB, lvl)[p.id], p)
            /\ Len(Table(DB, lvl)) - Len(Table(resp.before, lvl))
                 = Cardinality({pos \in Positions(lvl) : ~MatchedAt(pos)})

\* the node the request bound the item at a position to
BoundAt(pos) ==
    LET k == CHOOSE k \in 1..Len(resp.log) : resp.log[k].pos = pos
    IN  resp.log[k]

\* a row but for its active flag and its stamp
DataOf(row) == [row EXCEPT !.isactive = TRUE, !.updated_by = None]

(***************************************************************************)
(* C5: after a successful update, every payload item without an id has     *)
(* inserted a row of its own: a row that did not exist before, active,     *)
(* holding the item's fields under the node of its parent item, and bound  *)
(* to no other item, whatever the names of the existing siblings; a        *)
(* persisted row whose id no item carries keeps its data.                  *)
(***************************************************************************)
C5_IdlessItemInserts ==
    Updated =>
        \A lvl \in 1..4 :
            /\ \A pos \in Positions(lvl) :
                  ItemAt(pos).id = None =>
                      LET e == BoundAt(pos)
                          row == Table(DB, lvl)[e.node]
                      IN  /\ e.created
                          /\ e.node \in (Len(Table(resp.before, lvl)) + 1)..Len(Table(DB, lvl))
                          /\ row.isactive
                          /\ HoldsFields(lvl, row, ItemAt(pos))
                          /\ ParentOf(lvl, row) = IF lvl = 1 THEN resp.arg
                                                  ELSE BoundAt(ParentPos(pos)).node
                          /\ \A other \in Positions(lvl) \ {pos} : BoundAt(other).node /= e.node
            /\ \A n \in 1..Len(Table(resp.before, lvl)) :
                  n \notin {ItemAt(pos).id : pos \in Positions(lvl)}
                      => DataOf(Table(DB, lvl)[n]) = DataOf(Table(resp.before, lvl)[n])

\* an update whose payload has, under a matched area, an id-less scope named
\* as an active scope of that area
C5_IdlessScopeNamedAsSibling ==
    /\ Updated
    /\ \E pos \in ScopePositions :
          /\ ItemAt(pos).id = None
          /\ MatchedAt(ParentPos(pos))
          /\ \E x \in LoadedScopes(resp.before, ItemAt(ParentPos(pos)).id) :
                NameKey(resp.before.scopes[x].name) = NameKey(ItemAt(pos).name)

\* the active subtree of a template: what a detail read loads
ActiveAreas(db, tid) == LoadedAreas(db, tid)
ActiveScopes(db, tid) == ScopesUnder(db, ActiveAreas(db, tid))
ActiveQuestions(db, tid) == QuestionsUnder(db, ActiveScopes(db, tid))
ActiveOptions(db, tid) == OptionsUnder(db, ActiveQuestions(db, tid))

ActivePercentageTotal(db, tid) ==
    LET qs == SortedSeq(ActiveQuestions(db, tid))
    IN  SumSeq([k \in 1..Len(qs) |-> db.questions[qs[k]].percentage])

TreeWritten == resp.op \in TreeOps /\ Succeeded

(***************************************************************************)
(* C6: after every successful create, update or clone, the percentages of  *)
(* the active questions of the template, over all its active areas and     *)
(* scopes, sum to exactly 100.                                             *)
(***************************************************************************)
C6_ActivePercentagesSum100 ==
    TreeWritten => ActivePercentageTotal(DB, resp.tid) = 100

\* no two nodes of a set have the same key
UniqueKeys(S, key) == \A m, n \in S : m /= n => key[m] /= key[n]

(***************************************************************************)
(* C7: after every successful create, update or clone, the active subtree  *)
(* of the template has unique siblings: area names in the template, scope  *)
(* names in an area, question texts in a scope, option labels and option   *)
(* values in a question, names compared trimmed and case-insensitively.    *)
(***************************************************************************)
C7_ActiveSiblingsUnique ==
    TreeWritten =>
        /\ UniqueKeys(ActiveAreas(DB, resp.tid), [a \in ActiveAreas(DB, resp.tid) |-> NameKey(areas[a].name)])
        /\ \A a \in ActiveAreas(DB, resp.tid) :
              UniqueKeys(LoadedScopes(DB, a), [x \in LoadedScopes(DB, a) |-> NameKey(scopes[x].name)])
        /\ \A x \in ActiveScopes(DB, resp.tid) :
              UniqueKeys(LoadedQuestions(DB, x), [q \in LoadedQuestions(DB, x) |-> NameKey(questions[q].text)])
        /\ \A q \in ActiveQuestions(DB, resp.tid) :
              /\ UniqueKeys(LoadedOptions(DB, q), [o \in LoadedOptions(DB, q) |-> NameKey(options[o].label)])
              /\ UniqueKeys(LoadedOptions(DB, q), [o \in LoadedOptions(DB, q) |-> options[o].value])

OptionShape(o) == [label |-> o.label, value |-> o.value]

QuestionShape(q) ==
    [text |-> q.text, percentage |-> q.percentage, is_mandatory |-> q.is_mandatory,
     n |-> Len(q.options),
     options |-> {OptionShape(q.options[k]) : k \in 1..Len(q.options)}]

ScopeShape(x) ==
    [name |-> x.name, n |-> Len(x.questions),
     questions |-> {QuestionShape(x.questions[k]) : k \in 1..Len(x.questions)}]

AreaShape(a) ==
    [name |-> a.name, weightage |-> a.weightage, n |-> Len(a.scopes),
     scopes |-> {ScopeShape(a.scopes[k]) : k \in 1..Len(a.scopes)}]

TreeShape(as) == [n |-> Len(as), areas |-> {AreaShape(as[k]) : k \in 1..Len(as)}]

(***************************************************************************)
(* C9: after a successful update, the active tree of the template, as the  *)
(* returned detail shows it, is the payload tree: level by level as many   *)
(* nodes as the payload has items, holding the items' fields.              *)
(***************************************************************************)
C9_ActiveTreeIsPayload ==
    Updated =>
        TreeShape(_template_to_detail_response(DB, resp.tid).areas) = TreeShape(resp.areas)

(***************************************************************************)
(* C10: seed_default_template is idempotent: once a call has answered, a   *)
(* second call, by any caller, answers with the same template id and the   *)
(* same areas and inserts nothing; a call that finds the default template  *)
(* returns it and leaves the database as it was.                           *)
(***************************************************************************)
C10_SeedIdempotent ==
    resp.op = "seed" /\ Succeeded =>
        /\ \A user \in Users, fail \in BOOLEAN :
              LET again == seed_default_template(DB, user, fail)
                  after == SessionClose(DB, again.staged, again.committed)
              IN  /\ again.status = HTTP_200_OK
                  /\ again.tid = resp.tid
                  /\ after = DB
                  /\ _template_to_detail_response(after, again.tid).areas
                       = _template_to_detail_response(DB, resp.tid).areas
        /\ get_by_name(resp.before, DEFAULT_TEMPLATE_NAME) /= {}
              => /\ resp.tid \in get_by_name(resp.before, DEFAULT_TEMPLATE_NAME)
                 /\ DB = resp.before

\* a second call: the seed answered on a database that held the default
\* template with its five areas
C10_SeededTwice ==
    /\ resp.op = "seed"
    /\ Succeeded
    /\ get_by_name(resp.before, DEFAULT_TEMPLATE_NAME) = {resp.tid}
    /\ Cardinality(LoadedAreas(resp.before, resp.tid)) = Len(DEFAULT_AREAS)

\* the sum of the percentages of a scope item's questions
PayloadScopeTotal(x) == SumSeq([k \in 1..Len(x.questions) |-> x.questions[k].percentage])

\* the scopes of a payload and of a detail, each with its area, what it holds
\* and its total
ScopeTotalsOfPayload(as) ==
    UNION {{[area |-> AreaShape(as[i]), scope |-> ScopeShape(as[i].scopes[j]),
             total |-> PayloadScopeTotal(as[i].scopes[j])]
            : j \in 1..Len(as[i].scopes)} : i \in 1..Len(as)}

ScopeTotalsOfDetail(d) ==
    UNION {{[area |-> AreaShape(d.areas[i]), scope |-> ScopeShape(d.areas[i].scopes[j]),
             total |-> d.areas[i].scopes[j].total_percentage]
            : j \in 1..Len(d.areas[i].scopes)} : i \in 1..Len(d.areas)}

(***************************************************************************)
(* C13: for every payload create_template accepts, the detail of the new   *)
(* template reports total_weightage as the sum of the payload's area       *)
(* weightages and, for each scope, total_percentage as the sum of the      *)
(* scope's payload percentages, and holds exactly the payload's areas,     *)
(* scopes, questions and options; a detail read changes nothing, so a      *)
(* later read reports the same.                                            *)
(***************************************************************************)
C13_CreateRoundTrip ==
    /\ resp.op = "create" /\ Succeeded =>
          LET d == _template_to_detail_response(DB, resp.tid)
          IN  /\ d.total_weightage
                   = SumSeq([k \in 1..Len(resp.areas) |-> resp.areas[k].weightage])
              /\ ScopeTotalsOfDetail(d) = ScopeTotalsOfPayload(resp.areas)
              /\ TreeShape(d.areas) = TreeShape(resp.areas)
              /\ d.name = resp.name
    /\ resp.op = "detail" => DB = resp.before

\* a template was created from two areas of different weightage
C13_CreatedTwoAreas ==
    /\ resp.op = "create"
    /\ Succeeded
    /\ Len(resp.areas) = 2
    /\ resp.areas[1].weightage /= resp.areas[2].weightage

\* the name of an item: an area's or a scope's name, a question's text, an
\* option's label
NameOf(lvl, p) ==
    CASE lvl = 1 -> p.name
      [] lvl = 2 -> p.name
      [] lvl = 3 -> p.text
      [] lvl = 4 -> p.label

\* two items of one parent have the same name, trimmed and lower-cased
SiblingDuplicate ==
    \E lvl \in 1..4 : \E p1, p2 \in Positions(lvl) :
        /\ p1 /= p2
        /\ ParentPos(p1) = ParentPos(p2)
        /\ NameKey(NameOf(lvl, ItemAt(p1))) = NameKey(NameOf(lvl, ItemAt(p2)))

\* two options of one question have the same value
SiblingValueDuplicate ==
    \E p1, p2 \in OptionPositions :
        /\ p1 /= p2
        /\ ParentPos(p1) = ParentPos(p2)
        /\ ItemAt(p1).value = ItemAt(p2).value

\* an area without scopes, a scope without questions or a question without
\* options
EmptyParent ==
    \/ \E pos \in AreaPositions : ItemAt(pos).scopes = <<>>
    \/ \E pos \in ScopePositions : ItemAt(pos).questions = <<>>
    \/ \E pos \in QuestionPositions : ItemAt(pos).options = <<>>

DuplicateNameErrors == {"area_name", "scope_name", "question_name", "option_label"}

\* names and values are compared among the items of one parent only
ComparedPerParent ==
    /\ ~SiblingDuplicate => resp.err \notin DuplicateNameErrors
    /\ ~SiblingValueDuplicate => resp.err /= "option_value"

(***************************************************************************)
(* C14 as stated: a create, update or clone payload with two sibling names *)
(* equal after trimming and lower-casing is rejected with a duplicate-name *)
(* validation failure; equal names or values under different parents      *)
(* cause no such failure.                                                  *)
(***************************************************************************)
C14_DuplicateNameFailure ==
    resp.op \in TreeOps =>
        /\ SiblingDuplicate => /\ resp.status = HTTP_422_UNPROCESSABLE_ENTITY
                               /\ resp.err \in DuplicateNameErrors
        /\ ComparedPerParent

(***************************************************************************)
(* C14 amended: such a payload is always rejected: with 404 when the       *)
(* template of an update or clone is not found, else with 409 when the     *)
(* name check fails, else with a 422 validation failure, which is the      *)
(* duplicate-name failure unless the payload has a parent without children *)
(* (then the emptiness failure comes first); equal names or values under   *)
(* different parents cause no such failure.                                *)
(***************************************************************************)
C14_DuplicateNameRejected ==
    resp.op \in TreeOps =>
        /\ SiblingDuplicate =>
              IF ~TargetFound THEN resp.status = HTTP_404_NOT_FOUND
              ELSE IF ~NameFree THEN resp.status = HTTP_409_CONFLICT
              ELSE /\ resp.status = HTTP_422_UNPROCESSABLE_ENTITY
                   /\ IF EmptyParent THEN resp.err = "empty"
                      ELSE resp.err \in DuplicateNameErrors
        /\ ComparedPerParent

\* areas named 'Q' and 'q ' were refused as a duplicate area name
C14_TrimmedLowerCasedRefused ==
    /\ resp.op \in TreeOps
    /\ resp.err = "area_name"
    /\ Len(resp.areas) = 2
    /\ resp.areas[1].name = NameQ
    /\ resp.areas[2].name = NameQv

\* the active templates a request found whose name equals the requested name
\* when both are lower-cased
CaseInsensitiveCollisions ==
    {t \in 1..Len(resp.before.templates) :
        /\ resp.before.templates[t].isactive
        /\ StrLower(resp.before.templates[t].name) = StrLower(resp.name)}

(***************************************************************************)
(* C15: create and clone are rejected with 409 whenever the requested name *)
(* equals the name of an active template up to case, and nothing is        *)
(* persisted.                                                              *)
(***************************************************************************)
C15_CaseInsensitiveConflict ==
    (resp.op \in {"create", "clone"} /\ TargetFound /\ CaseInsensitiveCollisions /= {})
        => resp.status = HTTP_409_CONFLICT /\ DB = resp.before

(***************************************************************************)
(* C16: a detail read, an update and a clone of a template id that does    *)
(* not resolve to an active template (never created, or soft-deleted) fail *)
(* with 404 and change nothing.                                            *)
(***************************************************************************)
C16_InactiveTemplateNotFound ==
    (resp.op \in {"detail", "update", "clone"} /\ get_by_id(resp.before, resp.arg) = None)
        => resp.status = HTTP_404_NOT_FOUND /\ DB = resp.before

DeleteOps ==
    {"delete_template", "delete_area", "delete_scope", "delete_question"}

\* no active row at or below a template
InactiveTemplateTree(db, t) ==
    /\ ~db.templates[t].isactive
    /\ \A a \in 1..Len(db.areas) : db.areas[a].template_id = t => InactiveAreaTree(db, a)

(***************************************************************************)
(* C17: after delete_template, delete_area, delete_scope or                *)
(* delete_question has succeeded, the deleted node and every node below it *)
(* is inactive.                                                            *)
(***************************************************************************)
C17_DeleteCascades ==
    (resp.op \in DeleteOps /\ resp.status = HTTP_204_NO_CONTENT) =>
        CASE resp.op = "delete_template" -> InactiveTemplateTree(DB, resp.arg)
          [] resp.op = "delete_area" -> InactiveAreaTree(DB, resp.arg)
          [] resp.op = "delete_scope" -> InactiveScopeTree(DB, resp.arg)
          [] resp.op = "delete_question" -> InactiveQuestionTree(DB, resp.arg)

\* what a row is for good: who created it and the parent it belongs to
IdentityOf(lvl, row) == <<row.created_by, ParentOf(lvl, row)>>

\* every row the request found is still there, created by the same caller
\* under the same parent
RowsKept ==
    /\ Len(templates) >= Len(resp.before.templates)
    /\ \A t \in 1..Len(resp.before.templates) :
          templates[t].created_by = resp.before.templates[t].created_by
    /\ \A lvl \in 1..4 :
          /\ Len(Table(DB, lvl)) >= Len(Table(resp.before, lvl))
          /\ \A n \in 1..Len(Table(resp.before, lvl)) :
                IdentityOf(lvl, Table(DB, lvl)[n]) = IdentityOf(lvl, Table(resp.before, lvl)[n])

\* the rows of a table but for their active flags and stamps
DataOfRows(rows) == [n \in 1..Len(rows) |-> DataOf(rows[n])]

(***************************************************************************)
(* C18: no operation removes a persisted row: whatever a request does,     *)
(* every row it found is still there, and a successful delete changes no   *)
(* table but in the active flag (and the modifier stamp) of its rows.      *)
(***************************************************************************)
C18_NothingHardDeleted ==
    resp.op /= "none" =>
        /\ RowsKept
        /\ (resp.op \in DeleteOps \cup {"delete_option"} /\ resp.status = HTTP_204_NO_CONTENT)
              => /\ DataOfRows(templates) = DataOfRows(resp.before.templates)
                 /\ \A lvl \in 1..4 :
                       DataOfRows(Table(DB, lvl)) = DataOfRows(Table(resp.before, lvl))

\* a delete of an area has succeeded
C18_AreaDeleted ==
    /\ resp.op = "delete_area"
    /\ resp.status = HTTP_204_NO_CONTENT
    /\ resp.before.areas[resp.arg].isactive
    /\ ~areas[resp.arg].isactive

\* the rows a request found are as it found them
Untouched ==
    /\ SubSeq(templates, 1, Len(resp.before.templates)) = resp.before.templates
    /\ \A lvl \in 1..4 :
          SubSeq(Table(DB, lvl), 1, Len(Table(resp.before, lvl))) = Table(resp.before, lvl)

\* the rows of a level a request inserted
NewRows(lvl) == (Len(Table(resp.before, lvl)) + 1)..Len(Table(DB, lvl))

(***************************************************************************)
(* C19: a successful clone creates a new template whose tree is the        *)
(* payload's, made of new rows at every level, and leaves the source       *)
(* template and every row that existed as it was.                          *)
(***************************************************************************)
C19_CloneFrame ==
    (resp.op = "clone" /\ Succeeded) =>
        /\ Untouched
        /\ resp.tid = Len(resp.before.templates) + 1
        /\ resp.tid = Len(templates)
        /\ resp.tid /= resp.arg
        /\ templates[resp.tid].name = resp.name
        /\ TreeShape(_template_to_detail_response(DB, resp.tid).areas) = TreeShape(resp.areas)
        /\ \A a \in NewRows(1) : areas[a].template_id = resp.tid
        /\ \A x \in NewRows(2) : scopes[x].area_id \in NewRows(1)
        /\ \A q \in NewRows(3) : questions[q].scope_id \in NewRows(2)
        /\ \A o \in NewRows(4) : options[o].question_id \in NewRows(3)
        /\ \A lvl \in 1..4 : Cardinality(NewRows(lvl)) = Cardinality(Positions(lvl))

\* a clone of a template with a tree has succeeded, called by another user
\* than the one who wrote the source
C19_ClonedByOther ==
    /\ resp.op = "clone"
    /\ Succeeded
    /\ LoadedAreas(resp.before, resp.arg) /= {}
    /\ resp.before.templates[resp.arg].updated_by /= resp.user

\* the other active templates that have the requested name
OthersNamed ==
    {t \in get_by_name(resp.before, resp.name) : t /= resp.arg}

(***************************************************************************)
(* C20: update_template checks the name only when it changes: a payload    *)
(* name equal to the template's current name never yields 409; a changed   *)
(* name that another active template has yields 409 and leaves the         *)
(* database as it was.                                                     *)
(***************************************************************************)
C20_NameRecheckedOnChange ==
    (resp.op = "update" /\ TargetFound) =>
        /\ resp.name = resp.before.templates[resp.arg].name
              => resp.status /= HTTP_409_CONFLICT
        /\ (resp.name /= resp.before.templates[resp.arg].name /\ OthersNamed /= {})
              => resp.status = HTTP_409_CONFLICT /\ DB = resp.before

\* an update renamed a template to the name of another active template
C20_RenamedToTakenName ==
    /\ resp.op = "update"
    /\ resp.status = HTTP_409_CONFLICT
    /\ resp.name /= resp.before.templates[resp.arg].name
    /\ OthersNamed /= {}

(***************************************************************************)
(* Concurrent requests.  Every request has its own session and its own     *)
(* transaction (get_db), and the handlers are coroutines: between the      *)
(* reads of one request and its commit, other requests read and commit.    *)
(* A request reads when it begins (the lookups, the name check, the tree   *)
(* it loads) and what it flushes is seen by the others when it commits:    *)
(* an UPDATE of the columns it changed in the rows it loaded, an INSERT    *)
(* of the rows it added, under keys no other row has.                      *)
(***************************************************************************)

\* the handler of a request, run on the database the request has read
Handle(op, db, arg, r) ==
    CASE op = "create" -> create_template(db, r.name, r.areas, r.user, r.fail)
      [] op = "update" -> update_template(db, arg, r.name, r.areas, r.user, r.fail)
      [] op = "clone"  -> clone_template(db, arg, r.name, r.areas, r.user, r.fail)
      [] op = "seed"   -> seed_default_template(db, r.user, r.fail)

\* the UPDATEs of a flush: the columns the session changed in the rows it loaded
WrittenRows(cur, old, new) ==
    [n \in 1..Len(cur) |->
        IF n <= Len(old)
        THEN [f \in DOMAIN cur[n] |-> IF new[n][f] /= old[n][f] THEN new[n][f] ELSE cur[n][f]]
        ELSE cur[n]]

\* the INSERTs of a flush: the rows the session added, which take the next
\* keys of the table and refer to the keys their parents took
InsertedRows(old, new, pf, oldP, curP) ==
    LET rows == SubSeq(new, Len(old) + 1, Len(new))
    IN  [n \in 1..Len(rows) |->
            [rows[n] EXCEPT ![pf] = IF @ > oldP THEN @ + (curP - oldP) ELSE @]]

\* the database after the commit of a session that read `old` and staged `new`
ApplyWrites(cur, old, new) ==
    [templates |-> WrittenRows(cur.templates, old.templates, new.templates)
                     \o SubSeq(new.templates, Len(old.templates) + 1, Len(new.templates)),
     areas     |-> WrittenRows(cur.areas, old.areas, new.areas)
                     \o InsertedRows(old.areas, new.areas, "template_id",
                                     Len(old.templates), Len(cur.templates)),
     scopes    |-> WrittenRows(cur.scopes, old.scopes, new.scopes)
                     \o InsertedRows(old.scopes, new.scopes, "area_id",
                                     Len(old.areas), Len(cur.areas)),
     questions |-> WrittenRows(cur.questions, old.questions, new.questions)
                     \o InsertedRows(old.questions, new.questions, "scope_id",
                                     Len(old.scopes), Len(cur.scopes)),
     options   |-> WrittenRows(cur.options, old.options, new.options)
                     \o InsertedRows(old.options, new.options, "question_id",
                                     Len(old.questions), Len(cur.questions))]

\* the requests of the concurrent clients: one tree under two names
ConcurrentCreateRequests ==
    {Request(n, Single(NoPath, 0, NameQ, 100, 4), 1, FALSE) : n \in {NameT, NameTv}}

\* a chain of the template sent back as read, replaced by a new tree, or
\* kept with a new area beside it; under the current name or a new one
ConcurrentUpdateRequests(db, tid) ==
    IF get_by_id_with_details(db, tid) = None
    THEN {Request(NameT, Single(NoPath, 0, NameQ, 100, 4), 1, FALSE)}
    ELSE UNION {
           {Request(n, as, 2, FALSE) :
               n \in {db.templates[tid].name, NameTv},
               as \in {Single(pth, 4, NameQ, 100, 4), Single(pth, 0, NameR, 100, 4),
                       Fork(pth, 0, 4, 0, NameR, 1)}}
           : pth \in PathsOf(db, tid)}

\* the request reads and stages its writes: the session keeps what it read
\* and what it is to flush
Begin(s, op, arg, r) ==
    /\ nops' = nops + 1
    /\ LET out == Handle(op, DB, arg, r)
       IN  sess' = [sess EXCEPT ![s] =
                      [IdleSession EXCEPT !.phase = "open", !.op = op, !.arg = arg, !.req = r,
                                          !.status = out.status, !.committed = out.committed,
                                          !.before = DB, !.staged = out.staged,
                                          !.began = nops + 1]]
    /\ UNCHANGED <<templates, areas, scopes, questions, options, resp>>

BeginCreate(s) ==
    /\ sess[s].phase = "idle"
    /\ nops < MaxOps
    /\ \E r \in ConcurrentCreateRequests : Begin(s, "create", None, r)

BeginUpdate(s) ==
    /\ sess[s].phase = "idle"
    /\ nops < MaxOps
    /\ \E tid \in 1..Len(templates) :
        \E r \in ConcurrentUpdateRequests(DB, tid) : Begin(s, "update", tid, r)

BeginClone(s) ==
    /\ sess[s].phase = "idle"
    /\ nops < MaxOps
    /\ \E tid \in 1..Len(templates), r \in ConcurrentCreateRequests :
        Begin(s, "clone", tid, r)

BeginSeed(s) ==
    /\ sess[s].phase = "idle"
    /\ nops < MaxOps
    /\ \E user \in Users :
        Begin(s, "seed", None, Request(DEFAULT_TEMPLATE_NAME, <<>>, user, FALSE))

\* the request flushes and commits, or is refused: the session is closed
Commit(s) ==
    /\ sess[s].phase = "open"
    /\ LET db == IF sess[s].committed
                 THEN ApplyWrites(DB, sess[s].before, sess[s].staged)
                 ELSE DB
       IN  /\ templates' = db.templates
           /\ areas' = db.areas
           /\ scopes' = db.scopes
           /\ questions' = db.questions
           /\ options' = db.options
           /\ sess' = [sess EXCEPT ![s].phase = "done", ![s].ended = nops,
                                   ![s].first = <<Len(templates), Len(areas), Len(scopes),
                                                  Len(questions), Len(options)>>]
    /\ UNCHANGED <<resp, nops>>

\* the response is sent, the session goes back to the pool
EndSession(s) ==
    /\ sess[s].phase = "done"
    /\ sess' = [sess EXCEPT ![s] = IdleSession]
    /\ UNCHANGED <<templates, areas, scopes, questions, options, resp, nops>>

NextConcurrent ==
    \E s \in Sessions :
        \/ BeginCreate(s)
        \/ BeginUpdate(s)
        \/ BeginClone(s)
        \/ BeginSeed(s)
        \/ Commit(s)
        \/ EndSession(s)

SpecConcurrent == Init /\ [][NextConcurrent]_vars

\* the active templates of the database
ActiveTemplates == {t \in 1..Len(templates) : templates[t].isactive}

(***************************************************************************)
(* C11: whatever the interleaving of concurrent create, clone, update and  *)
(* seed requests, no two active templates have the same name.              *)
(***************************************************************************)
C11_ActiveNamesUnique ==
    \A t1 \in ActiveTemplates, t2 \in ActiveTemplates :
        t1 /= t2 => templates[t1].name /= templates[t2].name

\* the two sessions have answered, and each read before the other committed
Concurrent(s1, s2) ==
    /\ s1 /= s2
    /\ sess[s1].phase = "done"
    /\ sess[s2].phase = "done"
    /\ sess[s1].began <= sess[s2].ended
    /\ sess[s2].began <= sess[s1].ended

\* the rows of a level the session inserted at its commit
InsertedBy(s, lvl) ==
    (sess[s].first[lvl + 1] + 1)..
    (sess[s].first[lvl + 1] + Len(Table(sess[s].staged, lvl)) - Len(Table(sess[s].before, lvl)))

\* the active nodes of a level of a template's tree
ActiveNodes(tid, lvl) ==
    CASE lvl = 1 -> ActiveAreas(DB, tid)
      [] lvl = 2 -> ActiveScopes(DB, tid)
      [] lvl = 3 -> ActiveQuestions(DB, tid)
      [] lvl = 4 -> ActiveOptions(DB, tid)

\* the session inserted a node that is active in the template's tree
InsertedActive(s, tid) ==
    \E lvl \in 1..4 : InsertedBy(s, lvl) \cap ActiveNodes(tid, lvl) /= {}

\* two concurrent updates of one template have both committed
BothUpdated(s1, s2) ==
    /\ Concurrent(s1, s2)
    /\ sess[s1].op = "update"
    /\ sess[s2].op = "update"
    /\ sess[s1].arg = sess[s2].arg
    /\ sess[s1].status = HTTP_200_OK
    /\ sess[s2].status = HTTP_200_OK

(***************************************************************************)
(* C12: when two concurrent updates of one template have both committed,   *)
(* the template's active tree is the tree of one of the two payloads, and  *)
(* it has no active nodes inserted by both requests.                       *)
(***************************************************************************)
C12_LastWriteWins ==
    \A s1 \in Sessions, s2 \in Sessions :
        BothUpdated(s1, s2) =>
            /\ ~(InsertedActive(s1, sess[s1].arg) /\ InsertedActive(s2, sess[s1].arg))
            /\ TreeShape(_template_to_detail_response(DB, sess[s1].arg).areas)
                  \in {TreeShape(sess[s1].req.areas), TreeShape(sess[s2].req.areas)}

\* the sum of a column over the active rows of a table that have a given parent
ActiveWeightage(tid) ==
    SumSeq([n \in 1..Len(areas) |->
              IF areas[n].template_id = tid /\ areas[n].isactive THEN areas[n].weightage ELSE 0])

ActivePercentage(sid) ==
    SumSeq([n \in 1..Len(questions) |->
              IF questions[n].scope_id = sid /\ questions[n].isactive
              THEN questions[n].percentage ELSE 0])

(***************************************************************************)
(* C21: in every state, the detail of every template reports as            *)
(* total_weightage the sum of the weightages of the template's active      *)
(* areas, and for every scope it shows, as total_percentage the sum of the *)
(* percentages of that scope's active questions; the scopes it shows are   *)
(* active scopes of active areas.                                          *)
(***************************************************************************)
C21_TotalsOverActiveChildren ==
    \A t \in 1..Len(templates) :
        LET d == _template_to_detail_response(DB, t)
        IN  /\ d.total_weightage = ActiveWeightage(t)
            /\ \A i \in 1..Len(d.areas) :
                  /\ areas[d.areas[i].id].isactive
                  /\ \A j \in 1..Len(d.areas[i].scopes) :
                        /\ scopes[d.areas[i].scopes[j].id].isactive
                        /\ d.areas[i].scopes[j].total_percentage
                             = ActivePercentage(d.areas[i].scopes[j].id)

\* a template is read whose tree shows a scope with a soft-deleted question
C21_ReadAfterQuestionDeleted ==
    /\ resp.op = "detail"
    /\ resp.status = HTTP_200_OK
    /\ \E q \in 1..Len(questions) :
          /\ ~questions[q].isactive
          /\ questions[q].percentage > 0
          /\ questions[q].scope_id \in ActiveScopes(DB, resp.arg)

\* the positions of the items that carry an id which names no active node
\* under the node their parent item names
StalePositions(lvl) == {pos \in Positions(lvl) : ItemAt(pos).id /= None /\ ~MatchedAt(pos)}

\* the update passes every check and its commit succeeds
UpdateAccepted ==
    /\ resp.op = "update"
    /\ TargetFound
    /\ NameFree
    /\ ValidateAll(resp.areas) = "ok"
    /\ resp.err /= "storage"

\* the item at a position has inserted a row of its own under the node of
\* its parent item
InsertedAt(lvl, pos) ==
    LET e == BoundAt(pos)
        row == Table(DB, lvl)[e.node]
    IN  /\ e.created
        /\ e.node \in (Len(Table(resp.before, lvl)) + 1)..Len(Table(DB, lvl))
        /\ e.node /= ItemAt(pos).id
        /\ row.isactive
        /\ HoldsFields(lvl, row, ItemAt(pos))
        /\ ParentOf(lvl, row) = IF lvl = 1 THEN resp.arg ELSE BoundAt(ParentPos(pos)).node

\* the row an id names, if there is one, is as the request found it, active
\* flag and stamp apart, unless an item that matches it carries the id too
NotWrittenThrough(lvl, id) ==
    (/\ id \in 1..Len(Table(resp.before, lvl))
     /\ \A other \in Positions(lvl) : MatchedAt(other) => ItemAt(other).id /= id)
        => DataOf(Table(DB, lvl)[id]) = DataOf(Table(resp.before, lvl)[id])

(***************************************************************************)
(* C22: an update whose payload has an item with an id that names no       *)
(* active node under the current parent is not refused for it; the item    *)
(* inserts a new row under the current parent, with an id of its own, and  *)
(* the row its id names is not updated through it.                         *)
(***************************************************************************)
C22_StaleIdCreatesNew ==
    /\ UpdateAccepted => Updated
    /\ Updated =>
          \A lvl \in 1..4 : \A pos \in StalePositions(lvl) :
              /\ InsertedAt(lvl, pos)
              /\ NotWrittenThrough(lvl, ItemAt(pos).id)

\* an update succeeded whose payload names, under a matched scope, a question
\* of another scope or a question that is not active
C22_StaleQuestionIdInserted ==
    /\ Updated
    /\ \E pos \in StalePositions(3) :
          /\ MatchedAt(ParentPos(pos))
          /\ ItemAt(pos).id \in 1..Len(resp.before.questions)

\* the positions of the items whose parent item matches no node: the parent
\* is created new
UnderNewParent(lvl) == {pos \in Positions(lvl) : ~MatchedAt(ParentPos(pos))}

(***************************************************************************)
(* C23: after a successful update, every item nested under a parent that   *)
(* was created new has inserted a row of its own under the new parent,     *)
(* whatever id it carries; the row that id names keeps its parent, and is  *)
(* not updated through the item.                                           *)
(***************************************************************************)
C23_NewParentMatchesNothing ==
    Updated =>
        \A lvl \in 2..4 : \A pos \in UnderNewParent(lvl) :
            /\ BoundAt(ParentPos(pos)).created
            /\ InsertedAt(lvl, pos)
            /\ ItemAt(pos).id \in 1..Len(Table(resp.before, lvl))
                  => /\ ParentOf(lvl, Table(DB, lvl)[ItemAt(pos).id])
                          = ParentOf(lvl, Table(resp.before, lvl)[ItemAt(pos).id])
                     /\ NotWrittenThrough(lvl, ItemAt(pos).id)

\* an update succeeded whose payload has, under a question created new, an
\* option item that carries the id of an active option
C23_NewQuestionWithKnownOption ==
    /\ Updated
    /\ \E pos \in UnderNewParent(4) :
          /\ ItemAt(pos).id \in 1..Len(resp.before.options)
          /\ resp.before.options[ItemAt(pos).id].isactive
          /\ resp.before.options[ItemAt(pos).id].question_id = ItemAt(ParentPos(pos)).id

\* the rules in the order of the validator calls
ValidatorOrder ==
    <<"empty", "area_name", "scope_name", "question_name", "option_label",
      "option_value", "percentage">>

\* two items of one parent, at one level, have the same name
SiblingDuplicateAt(lvl) ==
    \E p1, p2 \in Positions(lvl) :
        /\ p1 /= p2
        /\ ParentPos(p1) = ParentPos(p2)
        /\ NameKey(NameOf(lvl, ItemAt(p1))) = NameKey(NameOf(lvl, ItemAt(p2)))

\* the payload of the request violates the k-th rule
RuleViolated(k) ==
    CASE k = 1 -> EmptyParent
      [] k = 2 -> SiblingDuplicateAt(1)
      [] k = 3 -> SiblingDuplicateAt(2)
      [] k = 4 -> SiblingDuplicateAt(3)
      [] k = 5 -> SiblingDuplicateAt(4)
      [] k = 6 -> SiblingValueDuplicate
      [] k = 7 -> PayloadPercentageTotal(resp.areas) /= 100

ViolatedRules == {k \in 1..Len(ValidatorOrder) : RuleViolated(k)}

(***************************************************************************)
(* C24: create, update and clone report a template that is not found       *)
(* (404) before a name conflict (409), and a name conflict before any      *)
(* validation failure (422); the validation failure reported is that of    *)
(* the earliest violated rule in the order non-empty, area names, scope    *)
(* names, question texts, option labels, option values, percentage total.  *)
(***************************************************************************)
C24_EarliestFailureReported ==
    resp.op \in TreeOps =>
        /\ ~TargetFound => resp.status = HTTP_404_NOT_FOUND
        /\ TargetFound /\ ~NameFree => resp.status = HTTP_409_CONFLICT
        /\ TargetFound /\ NameFree /\ ViolatedRules /= {}
              => /\ resp.status = HTTP_422_UNPROCESSABLE_ENTITY
                 /\ resp.err = ValidatorOrder[CHOOSE k \in ViolatedRules :
                                                \A m \in ViolatedRules : k <= m]
        /\ resp.status = HTTP_422_UNPROCESSABLE_ENTITY => ViolatedRules /= {}

\* an update is refused whose payload violates several rules, the percentage
\* total among them
C24_SeveralRulesViolated ==
    /\ resp.op = "update"
    /\ resp.status = HTTP_422_UNPROCESSABLE_ENTITY
    /\ Cardinality(ViolatedRules) >= 2
    /\ 7 \in ViolatedRules

\* the percentages of the payload summed scope by scope: a scope without
\* questions adds nothing
NestedPercentageTotal(as) ==
    SumSeq([i \in 1..Len(as) |->
        SumSeq([j \in 1..Len(as[i].scopes) |->
            SumSeq([k \in 1..Len(as[i].scopes[j].questions) |->
                       as[i].scopes[j].questions[k].percentage])])])

(***************************************************************************)
(* C25 as stated: a create, update or clone payload with an area without   *)
(* scopes, a scope without questions or a question without options is      *)
(* rejected with a 422 validation failure, that of the non-empty check,    *)
(* whatever its percentages.                                               *)
(***************************************************************************)
C25_EmptyParent422 ==
    (resp.op \in TreeOps /\ EmptyParent) =>
        /\ resp.status = HTTP_422_UNPROCESSABLE_ENTITY
        /\ resp.err = "empty"

(***************************************************************************)
(* C25 amended: such a payload is always rejected: with 404 when the       *)
(* template of an update or clone is not found, else with 409 when the     *)
(* name check fails, else with the 422 of the non-empty check, whatever    *)
(* its percentages; the percentage total counts 0 for a scope without      *)
(* questions.                                                              *)
(***************************************************************************)
C25_EmptyParentRejected ==
    resp.op \in TreeOps =>
        /\ PayloadPercentageTotal(resp.areas) = NestedPercentageTotal(resp.areas)
        /\ EmptyParent =>
              /\ resp.status = IF ~TargetFound THEN HTTP_404_NOT_FOUND
                               ELSE IF ~NameFree THEN HTTP_409_CONFLICT
                               ELSE HTTP_422_UNPROCESSABLE_ENTITY
              /\ resp.status = HTTP_422_UNPROCESSABLE_ENTITY => resp.err = "empty"
              /\ DB = resp.before

\* a payload with a scope without questions, its total not 100, is refused
\* by the non-empty check
C25_ScopeWithoutQuestionsRefused ==
    /\ resp.op \in TreeOps
    /\ resp.status = HTTP_422_UNPROCESSABLE_ENTITY
    /\ resp.err = "empty"
    /\ \E pos \in ScopePositions : ItemAt(pos).questions = <<>>
    /\ PayloadPercentageTotal(resp.areas) /= 100

LevelNo(name) ==
    CASE name = "area" -> 1
      [] name = "scope" -> 2
      [] name = "question" -> 3
      [] name = "option" -> 4

\* the flushes of the update that was answered
UpdateFlushes == Flushes(resp.log, 1, <<>>)

\* the rows the update inserted: the flush each was written in, and its
\* place in the flush
InsertsOfUpdate ==
    UNION {{[flush |-> b, place |-> i, lvl |-> LevelNo(UpdateFlushes[b][i].lvl),
             node |-> UpdateFlushes[b][i].node] : i \in 1..Len(UpdateFlushes[b])}
           : b \in 1..Len(UpdateFlushes)}

Before(w1, w2) ==
    \/ w1.flush < w2.flush
    \/ w1.flush = w2.flush /\ w1.place < w2.place

\* every new scope, question and option refers to a row that existed or
\* that an earlier flush has written
ParentsFlushedFirst ==
    \A w \in InsertsOfUpdate :
        w.lvl > 1 =>
            LET parent == ParentOf(w.lvl, Table(DB, w.lvl)[w.node])
            IN  \/ parent \in 1..Len(Table(resp.before, w.lvl - 1))
                \/ \E v \in InsertsOfUpdate :
                      v.lvl = w.lvl - 1 /\ v.node = parent /\ v.flush < w.flush

\* every row the update added is written by exactly one flush
EveryInsertFlushed ==
    \A lvl \in 1..4 : \A n \in NewRows(lvl) :
        Cardinality({w \in InsertsOfUpdate : w.lvl = lvl /\ w.node = n}) = 1

(***************************************************************************)
(* C26 as stated: within one update, the inserts are flushed level by      *)
(* level, all new areas before any new scope, all new scopes before any    *)
(* new question, all new questions before any new option, and every new    *)
(* scope, question and option has a parent an earlier flush has written.   *)
(***************************************************************************)
C26_FlushedLevelByLevel ==
    Updated =>
        /\ \A w1, w2 \in InsertsOfUpdate : w1.lvl < w2.lvl => Before(w1, w2)
        /\ ParentsFlushedFirst

(***************************************************************************)
(* C26 amended: within one update, every new area, scope and question is   *)
(* flushed when it is added, in the order of the payload, a parent before  *)
(* the items nested in it; new options are written by the next flush or by *)
(* the commit; every new scope, question and option has a parent that      *)
(* existed or that an earlier flush has written.                           *)
(***************************************************************************)
C26_ParentFlushedBeforeChild ==
    Updated =>
        /\ EveryInsertFlushed
        /\ ParentsFlushedFirst
        /\ \A w \in InsertsOfUpdate : w.lvl < 4 => w.place = 1
        /\ \A w1, w2 \in InsertsOfUpdate :
              (w1.lvl < 4 /\ w2.lvl < 4 /\ w1.flush < w2.flush)
                  => \E k1, k2 \in 1..Len(resp.log) :
                        /\ k1 < k2
                        /\ LevelNo(resp.log[k1].lvl) = w1.lvl /\ resp.log[k1].node = w1.node
                        /\ LevelNo(resp.log[k2].lvl) = w2.lvl /\ resp.log[k2].node = w2.node

\* an update inserted two branches: the scope of the first was written
\* before the area of the second
C26_ScopeBeforeSecondArea ==
    /\ Updated
    /\ \E w1, w2 \in InsertsOfUpdate : w1.lvl = 2 /\ w2.lvl = 1 /\ w1.flush < w2.flush

\* the rows of a level, and the templates, that the request inserted carry
\* the caller as creator and as modifier
InsertedStamped ==
    /\ \A t \in (Len(resp.before.templates) + 1)..Len(templates) :
          templates[t].created_by = resp.user /\ templates[t].updated_by = resp.user
    /\ \A lvl \in 1..4 : \A n \in NewRows(lvl) :
          /\ Table(DB, lvl)[n].created_by = resp.user
          /\ Table(DB, lvl)[n].updated_by = resp.user

\* the rows of a level the request found active and left inactive
Deactivated(lvl) ==
    {n \in 1..Len(Table(resp.before, lvl)) :
        Table(resp.before, lvl)[n].isactive /\ ~Table(DB, lvl)[n].isactive}

(***************************************************************************)
(* C27: every row inserted by a successful create, clone, seed or update   *)
(* has the caller as created_by and updated_by; after a successful update  *)
(* the template, every node an item was merged into and every node the     *)
(* update deactivated have the caller as updated_by; no operation changes  *)
(* the created_by of a row.                                                *)
(***************************************************************************)
C27_ActorStamped ==
    resp.op /= "none" =>
        /\ resp.op \in TreeOps \cup {"seed"} => InsertedStamped
        /\ Updated =>
              /\ templates[resp.arg].updated_by = resp.user
              /\ \A lvl \in 1..4 :
                    /\ \A pos \in Positions(lvl) :
                          Table(DB, lvl)[BoundAt(pos).node].updated_by = resp.user
                    /\ \A n \in Deactivated(lvl) : Table(DB, lvl)[n].updated_by = resp.user
        /\ \A t \in 1..Len(resp.before.templates) :
              templates[t].created_by = resp.before.templates[t].created_by
        /\ \A lvl \in 1..4 : \A n \in 1..Len(Table(resp.before, lvl)) :
              Table(DB, lvl)[n].created_by = Table(resp.before, lvl)[n].created_by

\* an update by another caller than the creator merged an item into a node,
\* inserted a row and deactivated a node with a node below it
C27_UpdatedByOther ==
    /\ Updated
    /\ resp.user /= resp.before.templates[resp.arg].created_by
    /\ \E pos \in AreaPositions : MatchedAt(pos)
    /\ NewRows(3) /= {}
    /\ \E x \in Deactivated(2) : \E q \in Deactivated(3) : resp.before.questions[q].scope_id = x

(***************************************************************************)
(* C28: when no active template has the default name, a seed whose commit  *)
(* succeeds creates one: a new active template of that name with exactly   *)
(* five areas, all active, of weightage 20, with no scope below them, the  *)
(* validators of emptiness and of percentages notwithstanding; its detail  *)
(* reports a total_weightage of 100.                                       *)
(***************************************************************************)
C28_SeedCreatesFiveAreas ==
    (resp.op = "seed" /\ get_by_name(resp.before, DEFAULT_TEMPLATE_NAME) = {}) =>
        /\ resp.status = HTTP_200_OK \/ resp.err = "storage"
        /\ resp.status = HTTP_200_OK =>
              LET d == _template_to_detail_response(DB, resp.tid)
                  rows == {a \in 1..Len(areas) : areas[a].template_id = resp.tid}
              IN  /\ resp.tid = Len(resp.before.templates) + 1
                  /\ get_by_name(DB, DEFAULT_TEMPLATE_NAME) = {resp.tid}
                  /\ Cardinality(rows) = 5
                  /\ \A a \in rows : areas[a].isactive /\ areas[a].weightage = 20
                  /\ ScopeRowsBelow(DB, rows) = {}
                  /\ Len(d.areas) = 5
                  /\ \A i \in 1..Len(d.areas) : d.areas[i].scopes = <<>>
                  /\ {d.areas[i].name : i \in 1..Len(d.areas)}
                       = {DEFAULT_AREAS[i].name : i \in 1..Len(DEFAULT_AREAS)}
                  /\ d.total_weightage = 100
                  /\ ~_validate_empty_question_scopes_areas(DEFAULT_AREAS)
                  /\ ~_validate_scope_percentages(DEFAULT_AREAS)

\* the default template is seeded anew after templates were written
C28_SeededAfresh ==
    /\ resp.op = "seed"
    /\ resp.status = HTTP_200_OK
    /\ get_by_name(resp.before, DEFAULT_TEMPLATE_NAME) = {}
    /\ resp.before.templates /= <<>>
    /\ Len(templates) = Len(resp.before.templates) + 1

\* the templates a request found inactive are as it found them
InactiveTemplatesKept ==
    \A t \in 1..Len(resp.before.templates) :
        ~resp.before.templates[t].isactive => templates[t] = resp.before.templates[t]

\* the rows of a level a request found inactive are as it found them
InactiveRowsKept(lvl) ==
    \A n \in 1..Len(Table(resp.before, lvl)) :
        ~Table(resp.before, lvl)[n].isactive
            => Table(DB, lvl)[n] = Table(resp.before, lvl)[n]

(***************************************************************************)
(* C29: soft deletion is permanent: whatever a request does, every         *)
(* template, area, scope, question and option it found inactive is         *)
(* inactive still, with the fields and the stamps it had.                  *)
(***************************************************************************)
C29_InactiveStaysAsItWas ==
    resp.op /= "none" =>
        /\ InactiveTemplatesKept
        /\ \A lvl \in 1..4 : InactiveRowsKept(lvl)

\* the template a row belongs to, by the parent references of a database
RECURSIVE AncestorTemplate(_, _, _)
AncestorTemplate(db, lvl, n) ==
    IF lvl = 1 THEN db.areas[n].template_id
    ELSE AncestorTemplate(db, lvl - 1, ParentOf(lvl, Table(db, lvl)[n]))

\* the rows of a level the request found under other templates than its own
ForeignRows(lvl) ==
    {n \in 1..Len(Table(resp.before, lvl)) : AncestorTemplate(resp.before, lvl, n) /= resp.arg}

(***************************************************************************)
(* C30: an update of template T, whatever it answers and whatever ids its  *)
(* payload carries, leaves every other template row and every area, scope, *)
(* question and option whose ancestry leads to another template exactly as *)
(* it found them; and no operation changes the parent reference of a row   *)
(* or the place (the id) a row has in its table.                           *)
(***************************************************************************)
C30_UpdateStaysInItsTemplate ==
    /\ resp.op = "update" =>
          /\ \A t \in 1..Len(resp.before.templates) :
                t /= resp.arg => templates[t] = resp.before.templates[t]
          /\ \A lvl \in 1..4 : \A n \in ForeignRows(lvl) :
                Table(DB, lvl)[n] = Table(resp.before, lvl)[n]
    /\ resp.op /= "none" =>
          \A lvl \in 1..4 :
              /\ Len(Table(DB, lvl)) >= Len(Table(resp.before, lvl))
              /\ \A n \in 1..Len(Table(resp.before, lvl)) :
                    ParentOf(lvl, Table(DB, lvl)[n]) = ParentOf(lvl, Table(resp.before, lvl)[n])

\* an update succeeded whose payload carries, at every level, the id of an
\* active node of another template
C30_UpdatedWithForeignIds ==
    /\ Updated
    /\ \A lvl \in 1..4 : \E pos \in Positions(lvl) :
          /\ ItemAt(pos).id \in ForeignRows(lvl)
          /\ Table(resp.before, lvl)[ItemAt(pos).id].isactive
          /\ resp.before.templates[AncestorTemplate(resp.before, lvl, ItemAt(pos).id)].isactive

====
